---- MODULE Spec2Model ----
(***************************************************************************)
(* Model of perch's preview pipeline: the bubbletea Model of package ui    *)
(* (files, selection, debounced asynchronous preview loads, preview cache, *)
(* viewport) as a message-driven state machine.  Indices are 0-based as in *)
(* the Go code; files[i+1] is the Go expression m.files[i].                *)
(***************************************************************************)
EXTENDS Integers, Sequences, FiniteSets, Bags, TLC

VARIABLES
  files,            \* m.files: sequence of FileStatus entries
  selected,         \* m.selected
  lastSelectedFile, \* m.lastSelectedFile
  listScroll,       \* m.listScroll
  listHeight,       \* m.listHeight
  width,            \* m.width
  height,           \* m.height
  previewReady,     \* m.previewReady
  preview,          \* m.preview
  viewport,         \* m.viewport: [YOffset, Height, lines]
  loading,          \* m.loading
  previewPending,   \* m.previewPending
  previewCache,     \* m.previewCache: function from cached paths to previews
  timers,           \* bag of armed debounce timers / undelivered previewRequestMsg
  loads,            \* bag of running loads / undelivered previewLoadedMsg
  fileLoads,        \* number of running loadFiles / undelivered filesLoadedMsg
  ticks,            \* number of armed tickCmd timers / undelivered TickMsg
  call,             \* the call of a pure function under way, its input and result
  ev,               \* history: the message handled last
  scenario          \* history: the phase of the scenario a specification runs

mvars == <<files, selected, lastSelectedFile, listScroll, listHeight, width,
           height, previewReady, preview, viewport, loading, previewPending,
           previewCache>>
vars == <<files, selected, lastSelectedFile, listScroll, listHeight, width,
          height, previewReady, preview, viewport, loading, previewPending,
          previewCache, timers, loads, fileLoads, ticks, ev, scenario,
          call>>

----------------------------------------------------------------------------
(* Bounds of the model *)

MaxFiles == 2
MaxWideFiles == 4
MaxTimers == 2
MaxLoads == 1
MaxSelTimers == 2
MaxFileLoads == 1
MaxBurst == 3
MaxSelLoads == 0
MaxListFiles == 3
MaxRunes == 3
MaxWrapWidth == 8
MaxFloorCols == 2
MaxContentLines == 2
MaxCacheWidths == 2
MaxReported == 2
MaxListTimers == 2
MaxPending == 1
MaxHunks == 2
MaxBody == 2
MaxStart == 3
MaxNewLines == 4
MaxLines == 8
MaxViewHeight == 5
MaxListResize == 1

(* Program constants *)

InitListHeight == 8
InitViewportHeight == 10
LayoutRows == 6
TopBuffer == 1
BottomBuffer == 2
ContextLines == 3
NearTop == 2

----------------------------------------------------------------------------
(* The files the status provider can report *)

Statuses == {"uncommitted", "committed"}

\* GetStatus keeps one entry per display path (its seen map): the lists of
\* at most n of the given entries, no path twice.
FileListsOver(entries, n) ==
  {fs \in UNION {[1..k -> entries] : k \in 0..n} :
     \A i, j \in DOMAIN fs : i # j => fs[i].Path # fs[j].Path}

\* Two files, each reported as uncommitted or as committed.
CoreLists == FileListsOver([Path : {"a.go", "LICENSE"}, Status : Statuses], MaxFiles)

\* Four files of fixed status.
WideEntries ==
  {[Path |-> "a.go", Status |-> "uncommitted"],
   [Path |-> "b.go", Status |-> "committed"],
   [Path |-> "c.go", Status |-> "uncommitted"],
   [Path |-> "LICENSE", Status |-> "committed"]}
WideLists == FileListsOver(WideEntries, MaxWideFiles)

\* Two files of fixed status.
LiveLists ==
  FileListsOver({[Path |-> "a.go", Status |-> "uncommitted"],
                 [Path |-> "LICENSE", Status |-> "committed"]}, MaxFiles)

\* The lists of the cache scenario: b.go is committed throughout.
CacheLists ==
  FileListsOver({[Path |-> "a.go", Status |-> "uncommitted"],
                 [Path |-> "b.go", Status |-> "committed"]}, MaxFiles)

\* The lists of the recommit scenario: b.go is committed by commit c1,
\* modified, or committed again by commit c2.
RecommitLists ==
  FileListsOver({[Path |-> "a.go", Status |-> "uncommitted", Commit |-> ""],
                 [Path |-> "b.go", Status |-> "committed", Commit |-> "c1"],
                 [Path |-> "b.go", Status |-> "uncommitted", Commit |-> ""],
                 [Path |-> "b.go", Status |-> "committed", Commit |-> "c2"]},
                MaxFiles)

\* Files of MaxLines lines whose only changed line is line 1, 2, ...
ScrollPaths ==
  <<"d1.go", "d2.go", "d3.go", "d4.go", "d5.go", "d6.go", "d7.go", "d8.go",
    "d9.go">>
ScrollPathSet == {ScrollPaths[k] : k \in 1..MaxLines}
ScrollPos(p) == CHOOSE k \in DOMAIN ScrollPaths : ScrollPaths[k] = p

\* The lists and the window sizes of the scroll scenario: LICENSE and the
\* changed file p; preview heights 1 .. MaxViewHeight.
ScrollLists(p) ==
  FileListsOver({[Path |-> "LICENSE", Status |-> "uncommitted"],
                 [Path |-> p, Status |-> "uncommitted"]}, MaxFiles)
ScrollSizes == {<<80, InitListHeight + LayoutRows + k>> : k \in 1..MaxViewHeight}

WindowSizes == {<<80, 20>>}

\* What is on disk: the number of lines of a file and the new-file line
\* numbers its zero-context diff marks.
FileLineCount(p) ==
  CASE p = "a.go" -> 10 [] p = "b.go" -> 3 [] p \in ScrollPathSet -> MaxLines
    [] OTHER -> 1
FileDiffLines(p) ==
  CASE p = "a.go" -> {8} [] p = "b.go" -> {1, 2}
    [] p \in ScrollPathSet -> {ScrollPos(p)} [] OTHER -> {}

\* The content read at load time: a file committed again has the content
\* of its new commit (entries that name their commit).
DiskLineCount(file) ==
  IF "Commit" \in DOMAIN file /\ file.Commit = "c2"
    THEN FileLineCount(file.Path) + 1
    ELSE FileLineCount(file.Path)

Max(a, b) == IF a > b THEN a ELSE b
Min(a, b) == IF a < b THEN a ELSE b
SetMin(S) == CHOOSE x \in S : \A y \in S : x <= y

----------------------------------------------------------------------------
(* Preview content *)

EmptyPreview ==
  [Valid |-> FALSE, Message |-> "", src |-> "", RawLines |-> 0, DiffLines |-> {}]

isUnsupportedFile(path) == path = "LICENSE"

\* The body of the load: the same classification in loadPreviewAsync's closure
\* and in updatePreviewKeepScroll.  src records the path the content was read
\* from (the Message embeds it; the lines are that file's lines).
\* strings.Contains(file.GitCode, "D"), for entries that carry their git code
IsDeleted(file) ==
  "GitCode" \in DOMAIN file /\ \E i \in DOMAIN file.GitCode : file.GitCode[i] = "D"

\* os.ReadFile fails (entries that say so: the file is gone or unreadable)
ReadFails(file) == "Unreadable" \in DOMAIN file /\ file.Unreadable

MessagePreview(file, message) ==
  [Valid |-> TRUE, Message |-> message, src |-> file.Path, RawLines |-> 0,
   DiffLines |-> {}]

BuildPreviewByExtensionFirst(file) ==
  IF isUnsupportedFile(file.Path) THEN MessagePreview(file, "no file extension")
  ELSE IF IsDeleted(file) THEN MessagePreview(file, "was deleted")
  ELSE IF ReadFails(file) THEN MessagePreview(file, "couldn't read")
  ELSE [Valid |-> TRUE, Message |-> "", src |-> file.Path,
        RawLines |-> DiskLineCount(file),
        DiffLines |-> IF file.Status = "uncommitted"
                        THEN FileDiffLines(file.Path) ELSE {}]

BuildPreviewKeepingDiff(file) ==
  IF IsDeleted(file) THEN MessagePreview(file, "was deleted")
  ELSE IF isUnsupportedFile(file.Path) THEN MessagePreview(file, "no file extension")
  ELSE [Valid |-> TRUE,
        Message |-> IF ReadFails(file) THEN "couldn't read" ELSE "",
        src |-> file.Path,
        RawLines |-> IF ReadFails(file) THEN 0 ELSE DiskLineCount(file),
        DiffLines |-> IF file.Status = "uncommitted"
                        THEN FileDiffLines(file.Path) ELSE {}]

BuildPreview(file) ==
  IF IsDeleted(file) THEN MessagePreview(file, "was deleted")
  ELSE IF isUnsupportedFile(file.Path) THEN MessagePreview(file, "no file extension")
  ELSE IF ReadFails(file) THEN MessagePreview(file, "couldn't read")
  ELSE [Valid |-> TRUE, Message |-> "", src |-> file.Path,
        RawLines |-> DiskLineCount(file),
        DiffLines |-> IF file.Status = "uncommitted"
                        THEN FileDiffLines(file.Path) ELSE {}]

\* Number of visual lines of a preview: one per logical line (the modelled
\* widths are wide enough for every line).
WrappedLineCount(pv) == pv.RawLines

\* Number of lines of the string renderPreviewContent returns, as
\* viewport.SetContent splits it.
RenderLineCount(pv, vpHeight) ==
  IF ~pv.Valid THEN 1
  ELSE IF pv.Message # "" THEN Max((vpHeight - 2) \div 2, 0) + 2
  ELSE IF pv.RawLines = 0 THEN 1
  ELSE WrappedLineCount(pv)

----------------------------------------------------------------------------
(* The viewport (bubbles/viewport): YOffset is kept in [0, maxYOffset] *)

MaxYOffset(vp) == Max(0, vp.lines - vp.Height)
SetYOffset(vp, n) == [vp EXCEPT !.YOffset = Max(0, Min(n, MaxYOffset(vp)))]
GotoTop(vp) == SetYOffset(vp, 0)
GotoBottom(vp) == SetYOffset(vp, MaxYOffset(vp))
SetContent(vp, n) ==
  LET v == [vp EXCEPT !.lines = n]
  IN IF v.YOffset > n - 1 THEN GotoBottom(v) ELSE v

\* scrollToFirstDiff
ScrollToFirstDiff(pv, vp) ==
  IF pv.DiffLines = {} THEN GotoTop(vp)
  ELSE LET firstDiffIndex == SetMin(pv.DiffLines) - 1
           targetOffset == Max(firstDiffIndex - ContextLines, 0)
       IN IF targetOffset <= NearTop THEN GotoTop(vp)
          ELSE SetYOffset(vp, targetOffset)

----------------------------------------------------------------------------
(* updatePreviewKeepScroll: the result as a record of the fields it writes *)

\* "Skip if we already have this file loaded"
AlreadyLoaded(sel, last, pv) == sel = last /\ pv.Valid

UpdatePreviewKeepScroll(keepScroll, fs, sel, last, ready, pv, vp) ==
  IF ~ready \/ Len(fs) = 0
    THEN [preview |-> EmptyPreview, viewport |-> SetContent(vp, 1),
          lastSelectedFile |-> -1]
  ELSE IF AlreadyLoaded(sel, last, pv)
    THEN [preview |-> pv, viewport |-> vp, lastSelectedFile |-> last]
  ELSE LET built == BuildPreview(fs[sel + 1])
           shown == SetContent(vp, RenderLineCount(built, vp.Height))
       IN [preview |-> built,
           viewport |-> IF keepScroll THEN shown ELSE GotoTop(shown),
           lastSelectedFile |-> sel]

----------------------------------------------------------------------------
(* The preview cache, keyed by path *)

EmptyCache == [p \in {} |-> EmptyPreview]
CachePut(cache, path, pv) ==
  [p \in DOMAIN cache \cup {path} |-> IF p = path THEN pv ELSE cache[p]]

CacheHitAnyStatus(cache, file) == file.Path \in DOMAIN cache

\* previewRequestMsg: the cache is used for committed entries only.
CacheHit(cache, file) == file.Path \in DOMAIN cache /\ file.Status = "committed"

\* previewLoadedMsg: committed file previews are cached under the path of
\* the entry now at the loaded index.
CacheAfterLoad(cache, fs, idx, pv) ==
  IF idx < Len(fs) /\ fs[idx + 1].Status = "committed"
    THEN CachePut(cache, fs[idx + 1].Path, pv)
    ELSE cache

----------------------------------------------------------------------------
(* The staleness checks of the two asynchronous results *)

\* previewRequestMsg: still the pending request, and inside the list.
RequestAccepted(idx, pending, fs) == idx = pending /\ idx >= 0 /\ idx < Len(fs)

LoadAcceptedAlways(idx, sel) == TRUE

\* previewLoadedMsg: only applied if its index is the selected one.
LoadAccepted(idx, sel) == idx = sel

----------------------------------------------------------------------------
(* filesLoadedMsg: the index selected in the new list *)

IndexOfPath(fs, path) ==
  IF \E i \in DOMAIN fs : fs[i].Path = path
    THEN SetMin({i \in DOMAIN fs : fs[i].Path = path}) - 1
    ELSE -1

SelectedPath(fs, sel) == IF sel >= 0 /\ sel < Len(fs) THEN fs[sel + 1].Path ELSE ""

NewSelectedFirst(wasAtTop, selectedPath, fs) == 0

NewSelectedByPath(wasAtTop, selectedPath, fs) ==
  IF IndexOfPath(fs, selectedPath) >= 0 THEN IndexOfPath(fs, selectedPath)
  ELSE 0

NewSelected(wasAtTop, selectedPath, fs) ==
  IF wasAtTop THEN 0
  ELSE IF IndexOfPath(fs, selectedPath) >= 0 THEN IndexOfPath(fs, selectedPath)
  ELSE 0

NeverSameFile(wasAtTop, selectedPath, fs) == FALSE

SameFile(wasAtTop, selectedPath, fs) ==
  IF wasAtTop THEN Len(fs) > 0 /\ fs[1].Path = selectedPath
  ELSE IndexOfPath(fs, selectedPath) >= 0

ClampSelected(sel, fs) ==
  LET s == IF sel >= Len(fs) THEN Len(fs) - 1 ELSE sel
  IN IF s < 0 THEN 0 ELSE s

----------------------------------------------------------------------------
\* kind: the handler that ran; idx: the index a request or load carried;
\* sel0, same: the selected index before a filesLoadedMsg and its sameFile.
Event(kind, idx, sel0, same) ==
  [kind |-> kind, idx |-> idx, sel0 |-> sel0, same |-> same]

\* Init: tea.Batch(m.loadFiles, tickCmd())
InitCmd == [ticks |-> 1, fileLoads |-> 1]

\* case TickMsg: tea.Batch(tickCmd(), m.loadFiles)
TickCmd == [ticks |-> 1, fileLoads |-> 1]

InitModel ==
  /\ files = <<>>
  /\ selected = 0
  /\ lastSelectedFile = 0
  /\ listScroll = 0
  /\ listHeight = InitListHeight
  /\ width = 0
  /\ height = 0
  /\ previewReady = FALSE
  /\ preview = EmptyPreview
  /\ viewport = [YOffset |-> 0, Height |-> InitViewportHeight, lines |-> 0]
  /\ loading = TRUE
  /\ previewPending = -1
  /\ previewCache = EmptyCache
  /\ timers = EmptyBag
  /\ loads = EmptyBag
  /\ fileLoads = InitCmd.fileLoads
  /\ ticks = InitCmd.ticks
  /\ ev = Event("init", -1, -1, FALSE)

----------------------------------------------------------------------------
(* Key navigation *)

\* "up"
ListScrollAfterUp(sel, scroll) ==
  IF sel < scroll + TopBuffer THEN Max(sel - TopBuffer, 0) ELSE scroll

\* "down"
ListScrollAfterDown(sel, scroll, lh) ==
  LET visibleCapacity == Max(lh - 3, 1)
      bottomBuffer == IF visibleCapacity <= BottomBuffer THEN 0 ELSE BottomBuffer
  IN IF sel >= scroll + visibleCapacity - bottomBuffer
       THEN sel - visibleCapacity + bottomBuffer + 1
       ELSE scroll

\* debouncePreviewCmd: arms a timer that delivers previewRequestMsg{idx}
Debounce(idx) == timers (+) SetToBag({idx})

\* maxTimers caps the armed timers of the model.
KeyUp(maxTimers) ==
  /\ selected > 0
  /\ BagCardinality(timers) < maxTimers
  /\ selected' = selected - 1
  /\ listScroll' = ListScrollAfterUp(selected - 1, listScroll)
  /\ previewPending' = selected - 1
  /\ timers' = Debounce(selected - 1)
  /\ ev' = Event("up", -1, -1, FALSE)
  /\ UNCHANGED <<files, lastSelectedFile, listHeight, width, height,
                 previewReady, preview, viewport, loading, previewCache,
                 loads, fileLoads, ticks>>

KeyDownUnguarded(maxTimers) ==
  /\ BagCardinality(timers) < maxTimers
  /\ selected' = selected + 1
  /\ listScroll' = ListScrollAfterDown(selected + 1, listScroll, listHeight)
  /\ previewPending' = selected + 1
  /\ timers' = Debounce(selected + 1)
  /\ ev' = Event("down", -1, -1, FALSE)
  /\ UNCHANGED <<files, lastSelectedFile, listHeight, width, height,
                 previewReady, preview, viewport, loading, previewCache,
                 loads, fileLoads, ticks>>

KeyDown(maxTimers) ==
  /\ selected < Len(files) - 1
  /\ BagCardinality(timers) < maxTimers
  /\ selected' = selected + 1
  /\ listScroll' = ListScrollAfterDown(selected + 1, listScroll, listHeight)
  /\ previewPending' = selected + 1
  /\ timers' = Debounce(selected + 1)
  /\ ev' = Event("down", -1, -1, FALSE)
  /\ UNCHANGED <<files, lastSelectedFile, listHeight, width, height,
                 previewReady, preview, viewport, loading, previewCache,
                 loads, fileLoads, ticks>>

KeyShiftUp(maxTimers) ==
  /\ selected # 0
  /\ BagCardinality(timers) < maxTimers
  /\ selected' = 0
  /\ listScroll' = 0
  /\ previewPending' = 0
  /\ timers' = Debounce(0)
  /\ ev' = Event("shift+up", -1, -1, FALSE)
  /\ UNCHANGED <<files, lastSelectedFile, listHeight, width, height,
                 previewReady, preview, viewport, loading, previewCache,
                 loads, fileLoads, ticks>>

----------------------------------------------------------------------------
(* tea.WindowSizeMsg, with recalculateViewport and updatePreview *)

WindowSize(w, h) ==
  LET previewHeight == Max(h - listHeight - LayoutRows, 1)
      vp == [viewport EXCEPT !.Height = previewHeight]
      r == UpdatePreviewKeepScroll(FALSE, files, selected, lastSelectedFile,
                                   TRUE, preview, vp)
  IN /\ width' = w
     /\ height' = h
     /\ previewReady' = TRUE
     /\ preview' = r.preview
     /\ viewport' = r.viewport
     /\ lastSelectedFile' = r.lastSelectedFile
     /\ ev' = Event("resize", -1, -1, FALSE)
     /\ UNCHANGED <<files, selected, listScroll, listHeight, loading,
                    previewPending, previewCache, timers, loads, fileLoads, ticks>>

----------------------------------------------------------------------------
(* renderFileList: the slice of the list the view draws *)

FileSlots(scroll, lh, n) ==
  LET showUpDots == scroll > 0
      s1 == IF showUpDots THEN lh - 1 - 1 ELSE lh - 1
      potentialEnd == scroll + s1
      showDownDots == potentialEnd < n
      s2 == IF showDownDots THEN s1 - 1 ELSE s1
  IN IF s2 < 1 THEN 1 ELSE s2

VisibleStart(scroll) == scroll

VisibleEnd(scroll, lh, n) ==
  LET visibleEnd == scroll + FileSlots(scroll, lh, n)
  IN IF visibleEnd > n THEN n ELSE visibleEnd

\* showDownDots
ShowDownDots(scroll, lh, n) ==
  (IF scroll > 0 THEN scroll + lh - 1 - 1 ELSE scroll + lh - 1) < n

\* The number of lines renderFileList returns: the header, the dots, the
\* drawn entries, and the padding up to listHeight.
ListRows(scroll, lh, n) ==
  LET drawn == IF n = 0 THEN 1
               ELSE 1 + (IF scroll > 0 THEN 1 ELSE 0)
                      + Max(VisibleEnd(scroll, lh, n) - VisibleStart(scroll), 0)
                      + (IF ShowDownDots(scroll, lh, n) THEN 1 ELSE 0)
  IN Max(drawn, lh)

----------------------------------------------------------------------------
(* "+" / "=" and "-" / "_": the list height, with recalculateViewport *)

MinListHeight == 3

\* rows of the window the "+" key leaves to the rest of the layout
PlusMargin == 10

RecalculateViewport(lh) ==
  LET previewHeight == Max(height - lh - LayoutRows, 1)
      vp == [viewport EXCEPT !.Height = previewHeight]
  IN UpdatePreviewKeepScroll(FALSE, files, selected, lastSelectedFile,
                             TRUE, preview, vp)

KeyPlus ==
  LET r == RecalculateViewport(listHeight + 1)
  IN /\ listHeight < height - PlusMargin
     /\ listHeight' = listHeight + 1
     /\ preview' = r.preview
     /\ viewport' = r.viewport
     /\ lastSelectedFile' = r.lastSelectedFile
     /\ previewReady' = TRUE
     /\ ev' = Event("plus", -1, -1, FALSE)
     /\ UNCHANGED <<files, selected, listScroll, width, height,
                    loading, previewPending, previewCache, timers, loads,
                    fileLoads, ticks>>

KeyMinusReselect ==
  LET r == RecalculateViewport(listHeight - 1)
  IN /\ listHeight > MinListHeight
     /\ listHeight' = listHeight - 1
     /\ selected' = LET end == VisibleEnd(listScroll, listHeight - 1, Len(files))
                    IN IF Len(files) > 0 /\ selected >= end
                         THEN Max(end - 1, 0) ELSE selected
     /\ preview' = r.preview
     /\ viewport' = r.viewport
     /\ lastSelectedFile' = r.lastSelectedFile
     /\ previewReady' = TRUE
     /\ ev' = Event("minus", -1, -1, FALSE)
     /\ UNCHANGED <<files, listScroll, width, height,
                    loading, previewPending, previewCache, timers, loads,
                    fileLoads, ticks>>

KeyMinus ==
  LET r == RecalculateViewport(listHeight - 1)
  IN /\ listHeight > MinListHeight
     /\ listHeight' = listHeight - 1
     /\ preview' = r.preview
     /\ viewport' = r.viewport
     /\ lastSelectedFile' = r.lastSelectedFile
     /\ previewReady' = TRUE
     /\ ev' = Event("minus", -1, -1, FALSE)
     /\ UNCHANGED <<files, selected, listScroll, width, height,
                    loading, previewPending, previewCache, timers, loads,
                    fileLoads, ticks>>

----------------------------------------------------------------------------
(* The preview scroll inputs: j, k, g, G, ctrl+d, ctrl+u and the mouse wheel *)

\* viewport.LineDown(n) / viewport.LineUp(n)
LineDown(vp, n) ==
  IF vp.YOffset >= MaxYOffset(vp) THEN vp ELSE SetYOffset(vp, vp.YOffset + n)
LineUp(vp, n) ==
  IF vp.YOffset <= 0 THEN vp ELSE SetYOffset(vp, vp.YOffset - n)

ScrollKeys == {"j", "k", "g", "G", "ctrl+d", "ctrl+u"}

ScrollKeyMovingSelection(key) ==
  /\ viewport' = LineDown(viewport, 1)
  /\ selected' = IF selected < Len(files) - 1 THEN selected + 1 ELSE 0
  /\ ev' = Event("scroll", -1, -1, FALSE)
  /\ UNCHANGED <<files, lastSelectedFile, listScroll, listHeight,
                 width, height, previewReady, preview, loading,
                 previewPending, previewCache, timers, loads, fileLoads,
                 ticks>>

ScrollKey(key) ==
  /\ viewport' = CASE key = "j" -> LineDown(viewport, 1)
                   [] key = "k" -> LineUp(viewport, 1)
                   [] key = "g" -> GotoTop(viewport)
                   [] key = "G" -> GotoBottom(viewport)
                   [] key = "ctrl+d" -> LineDown(viewport, viewport.Height \div 2)
                   [] key = "ctrl+u" -> LineUp(viewport, viewport.Height \div 2)
  /\ ev' = Event("scroll", -1, -1, FALSE)
  /\ UNCHANGED <<files, selected, lastSelectedFile, listScroll, listHeight,
                 width, height, previewReady, preview, loading,
                 previewPending, previewCache, timers, loads, fileLoads,
                 ticks>>

WheelLines == 3

\* tea.MouseMsg: the wheel scrolls the preview when the pointer is below
\* the list (row y).
MouseWheel(down, y) ==
  /\ viewport' = IF y > listHeight + 3
                   THEN IF down THEN LineDown(viewport, WheelLines)
                                ELSE LineUp(viewport, WheelLines)
                   ELSE viewport
  /\ ev' = Event("wheel", -1, -1, FALSE)
  /\ UNCHANGED <<files, selected, lastSelectedFile, listScroll, listHeight,
                 width, height, previewReady, preview, loading,
                 previewPending, previewCache, timers, loads, fileLoads,
                 ticks>>

----------------------------------------------------------------------------
(* TickMsg: re-arms the tick and starts loadFiles *)

Tick ==
  /\ ticks > 0
  /\ fileLoads < MaxFileLoads
  /\ ticks' = ticks - 1 + TickCmd.ticks
  /\ fileLoads' = fileLoads + TickCmd.fileLoads
  /\ ev' = Event("tick", -1, -1, FALSE)
  /\ UNCHANGED <<mvars, timers, loads>>

RefreshCmdWithTick == [ticks |-> 1, fileLoads |-> 1]

\* case RefreshMsg: return m, m.loadFiles
RefreshCmd == [ticks |-> 0, fileLoads |-> 1]

Refresh ==
  /\ fileLoads < MaxFileLoads
  /\ ticks' = ticks + RefreshCmd.ticks
  /\ fileLoads' = fileLoads + RefreshCmd.fileLoads
  /\ ev' = Event("refresh", -1, -1, FALSE)
  /\ UNCHANGED <<mvars, timers, loads>>

(* filesLoadedMsg *)

KeepLast(last) == last

ForceRefreshKept(last) == last

\* The refresh forces the rebuild of the preview: m.lastSelectedFile = -1
ForceRefresh(last) == -1

FilesLoaded(fs) ==
  LET wasAtTop == selected = 0
      selectedPath == SelectedPath(files, selected)
      sameFile == SameFile(wasAtTop, selectedPath, fs)
      sel == ClampSelected(NewSelected(wasAtTop, selectedPath, fs), fs)
      r == UpdatePreviewKeepScroll(sameFile, fs, sel,
                                   ForceRefresh(lastSelectedFile),
                                   previewReady, preview, viewport)
  IN /\ fileLoads > 0
     /\ fileLoads' = fileLoads - 1
     /\ loading' = FALSE
     /\ files' = fs
     /\ selected' = sel
     /\ preview' = r.preview
     /\ viewport' = r.viewport
     /\ lastSelectedFile' = r.lastSelectedFile
     /\ ev' = Event("files", -1, selected, sameFile)
     /\ UNCHANGED <<listScroll, listHeight, width, height, previewReady,
                    previewPending, previewCache, timers, loads, ticks>>

----------------------------------------------------------------------------
(* previewRequestMsg: a debounce timer fires.  maxLoads caps the running   *)
(* loads of the model.                                                     *)

LoadPreviewAsync(fs, idx) ==
  [selectedIndex |-> idx, preview |-> BuildPreview(fs[idx + 1])]

PreviewRequest(idx, maxLoads) ==
  /\ BagIn(idx, timers)
  /\ timers' = timers (-) SetToBag({idx})
  /\ IF ~RequestAccepted(idx, previewPending, files)
       THEN /\ ev' = Event("request-stale", -1, -1, FALSE)
            /\ UNCHANGED <<mvars, loads>>
     ELSE IF CacheHit(previewCache, files[idx + 1])
       THEN LET cached == previewCache[files[idx + 1].Path]
            IN /\ preview' = cached
               /\ viewport' = GotoTop(SetContent(viewport,
                                 RenderLineCount(cached, viewport.Height)))
               /\ lastSelectedFile' = idx
               /\ previewPending' = -1
               /\ ev' = Event("request-cached", idx, -1, FALSE)
               /\ UNCHANGED <<files, selected, listScroll, listHeight, width,
                              height, previewReady, loading, previewCache,
                              loads>>
     ELSE /\ BagCardinality(loads) < maxLoads
          /\ loads' = loads (+) SetToBag({LoadPreviewAsync(files, idx)})
          /\ ev' = Event("request-load", idx, -1, FALSE)
          /\ UNCHANGED mvars
  /\ UNCHANGED <<fileLoads, ticks>>

----------------------------------------------------------------------------
(* previewLoadedMsg: an asynchronous load completes *)

ViewportAfterLoad(vp, fs, idx, pv) ==
  LET shown == SetContent(vp, RenderLineCount(pv, vp.Height))
  IN IF idx < Len(fs) /\ fs[idx + 1].Status = "uncommitted" /\ pv.DiffLines # {}
       THEN ScrollToFirstDiff(pv, shown)
       ELSE GotoTop(shown)

PreviewLoaded(msg) ==
  /\ BagIn(msg, loads)
  /\ loads' = loads (-) SetToBag({msg})
  /\ IF ~LoadAccepted(msg.selectedIndex, selected)
       THEN /\ ev' = Event("loaded-stale", -1, -1, FALSE)
            /\ UNCHANGED mvars
       ELSE /\ preview' = msg.preview
            /\ previewCache' = CacheAfterLoad(previewCache, files,
                                              msg.selectedIndex, msg.preview)
            /\ viewport' = ViewportAfterLoad(viewport, files,
                                             msg.selectedIndex, msg.preview)
            /\ lastSelectedFile' = msg.selectedIndex
            /\ previewPending' = -1
            /\ ev' = Event("loaded", msg.selectedIndex, -1, FALSE)
            /\ UNCHANGED <<files, selected, listScroll, listHeight, width,
                           height, previewReady, loading>>
  /\ UNCHANGED <<timers, fileLoads, ticks>>

----------------------------------------------------------------------------
(* git.GetDiffLines: the classifier of the lines of `git diff -U0`.  A     *)
(* line of text is the sequence of its characters.                         *)

HasPrefix(s, p) == Len(s) >= Len(p) /\ SubSeq(s, 1, Len(p)) = p

\* strings.Index for a separator of one character (0: not found)
IndexOf(s, c) ==
  IF \E i \in DOMAIN s : s[i] = c THEN SetMin({i \in DOMAIN s : s[i] = c}) ELSE 0

RECURSIVE Split(_, _)
\* strings.Split(s, c)
Split(s, c) ==
  IF IndexOf(s, c) = 0 THEN <<s>>
  ELSE <<SubSeq(s, 1, IndexOf(s, c) - 1)>>
         \o Split(SubSeq(s, IndexOf(s, c) + 1, Len(s)), c)

DigitChars == <<"0", "1", "2", "3", "4", "5", "6", "7", "8", "9">>
IsDigit(c) == \E d \in DOMAIN DigitChars : DigitChars[d] = c
DigitVal(c) == (CHOOSE d \in DOMAIN DigitChars : DigitChars[d] = c) - 1

RECURSIVE ScanDigits(_, _)
\* the value of the leading digits of s, continuing the value acc
ScanDigits(s, acc) ==
  IF s # <<>> /\ IsDigit(s[1]) THEN ScanDigits(Tail(s), 10 * acc + DigitVal(s[1]))
  ELSE acc

RECURSIVE SkipSpace(_)
SkipSpace(s) == IF s # <<>> /\ s[1] = " " THEN SkipSpace(Tail(s)) ELSE s

\* fmt.Sscanf(s, "%d", &n): leading spaces, an optional sign, digits; n keeps
\* its old value when no digit follows.
Sscanf(s, old) ==
  LET t == SkipSpace(s)
      signed == t # <<>> /\ t[1] \in {"+", "-"}
      u == IF signed THEN Tail(t) ELSE t
  IN IF u = <<>> \/ ~IsDigit(u[1]) THEN old
     ELSE IF signed /\ t[1] = "-" THEN 0 - ScanDigits(u, 0)
     ELSE ScanDigits(u, 0)

\* the line counter after a line that begins with "@@"
HunkLineNum(line, lineNum) ==
  LET parts == Split(line, "+")
  IN IF Len(parts) >= 2
       THEN LET numPart == Split(Split(parts[2], ",")[1], " ")[1]
            IN Sscanf(numPart, lineNum) - 1
       ELSE lineNum

MapPut(m, k, v) == [x \in DOMAIN m \cup {k} |-> IF x = k THEN v ELSE m[x]]

EmptyMap == [x \in {} |-> ""]

\* One round of the scanner loop: the counter and the map after `line`.
ScanLine(line, lineNum, result) ==
  IF HasPrefix(line, <<"@", "@">>)
    THEN [lineNum |-> HunkLineNum(line, lineNum), result |-> result]
  ELSE IF HasPrefix(line, <<"+">>) /\ ~HasPrefix(line, <<"+", "+", "+">>)
    THEN [lineNum |-> lineNum + 1, result |-> MapPut(result, lineNum + 1, "added")]
  ELSE IF HasPrefix(line, <<"-">>) /\ ~HasPrefix(line, <<"-", "-", "-">>)
    THEN [lineNum |-> lineNum, result |-> MapPut(result, lineNum, "deleted")]
  ELSE IF ~HasPrefix(line, <<"\\">>) /\ lineNum > 0
    THEN [lineNum |-> lineNum + 1, result |-> result]
  ELSE [lineNum |-> lineNum, result |-> result]

RECURSIVE Digits(_)
\* the decimal digits of n >= 0, as git prints them
Digits(n) == IF n < 10 THEN <<DigitChars[n + 1]>>
             ELSE Digits(n \div 10) \o <<DigitChars[(n % 10) + 1]>>

\* a range of a hunk header: git leaves out ",count" when the count is 1
Range(start, count) ==
  Digits(start) \o (IF count = 1 THEN <<>> ELSE <<",">> \o Digits(count))

\* "@@ -os,oc +ns,nc @@"
HunkHeader(os, oc, ns, nc) ==
  <<"@", "@", " ", "-">> \o Range(os, oc) \o <<" ", "+">> \o Range(ns, nc)
    \o <<" ", "@", "@">>

----------------------------------------------------------------------------
(* Spec: every interleaving of keys, resizes, refreshes, debounce firings  *)
(* and load completions over two files whose status varies.                *)

Scenario(phase, starts, list, applied) ==
  [phase |-> phase, starts |-> starts, list |-> list, applied |-> applied]

NoCall == [fn |-> "none"]

Init == InitModel /\ scenario = Scenario("run", <<>>, <<>>, {}) /\ call = NoCall

Next ==
  \/ KeyUp(MaxTimers) /\ UNCHANGED <<scenario, call>>
  \/ KeyDown(MaxTimers) /\ UNCHANGED <<scenario, call>>
  \/ KeyShiftUp(MaxTimers) /\ UNCHANGED <<scenario, call>>
  \/ \E s \in WindowSizes : WindowSize(s[1], s[2]) /\ UNCHANGED <<scenario, call>>
  \/ Tick /\ UNCHANGED <<scenario, call>>
  \/ \E fs \in CoreLists : FilesLoaded(fs) /\ UNCHANGED <<scenario, call>>
  \/ \E idx \in BagToSet(timers) : PreviewRequest(idx, MaxLoads) /\ UNCHANGED <<scenario, call>>
  \/ \E msg \in BagToSet(loads) : PreviewLoaded(msg) /\ UNCHANGED <<scenario, call>>

Spec == Init /\ [][Next]_vars

----------------------------------------------------------------------------
(* SpecSel: selection under key navigation and refreshes over lists of up  *)
(* to four files of fixed status.  Debounce timers fire, but the runs in   *)
(* which a timer starts a load are left to Spec.                           *)

SelNext ==
  \/ KeyUp(MaxSelTimers) /\ UNCHANGED <<scenario, call>>
  \/ KeyDown(MaxSelTimers) /\ UNCHANGED <<scenario, call>>
  \/ KeyShiftUp(MaxSelTimers) /\ UNCHANGED <<scenario, call>>
  \/ \E s \in WindowSizes : WindowSize(s[1], s[2]) /\ UNCHANGED <<scenario, call>>
  \/ Tick /\ UNCHANGED <<scenario, call>>
  \/ \E fs \in WideLists : FilesLoaded(fs) /\ UNCHANGED <<scenario, call>>
  \/ \E idx \in BagToSet(timers) : PreviewRequest(idx, MaxSelLoads) /\ UNCHANGED <<scenario, call>>

SpecSel == Init /\ [][SelNext]_vars

----------------------------------------------------------------------------
(* SpecList: SpecSel with the two keys that change the list height and the *)
(* window sizes that leave room for a taller list.                         *)

ListWindowSizes == {<<80, 14>>}

\* Three files of fixed status.
ListLists ==
  FileListsOver({[Path |-> "a.go", Status |-> "uncommitted"],
                 [Path |-> "b.go", Status |-> "committed"],
                 [Path |-> "LICENSE", Status |-> "committed"]}, MaxListFiles)

ListNext ==
  \/ KeyUp(MaxListTimers) /\ UNCHANGED <<scenario, call>>
  \/ KeyDown(MaxListTimers) /\ UNCHANGED <<scenario, call>>
  \/ KeyShiftUp(MaxListTimers) /\ UNCHANGED <<scenario, call>>
  \/ KeyPlus /\ UNCHANGED <<scenario, call>>
  \/ KeyMinus /\ UNCHANGED <<scenario, call>>
  \/ \E s \in ListWindowSizes : WindowSize(s[1], s[2]) /\ UNCHANGED <<scenario, call>>
  \/ Tick /\ UNCHANGED <<scenario, call>>
  \/ \E fs \in ListLists : FilesLoaded(fs) /\ UNCHANGED <<scenario, call>>
  \/ \E idx \in BagToSet(timers) : PreviewRequest(idx, MaxSelLoads) /\ UNCHANGED <<scenario, call>>

SpecList == Init /\ [][ListNext]_vars

----------------------------------------------------------------------------
(* SpecBurst: a list is loaded, then a burst of at most MaxBurst selection *)
(* changes happens before any of their timers fires, then the timers fire  *)
(* and the loads complete with no further input.  scenario.starts records  *)
(* the index of every load or cache serve a timer starts.                  *)

BurstInit ==
  InitModel /\ scenario = Scenario("keys", <<>>, <<>>, {}) /\ call = NoCall

BurstRequest(idx) ==
  /\ PreviewRequest(idx, MaxBurst)
  /\ scenario' = IF RequestAccepted(idx, previewPending, files)
                   THEN [scenario EXCEPT !.starts = Append(@, idx)]
                   ELSE scenario
  /\ UNCHANGED call

EndBurst ==
  /\ scenario.phase = "keys"
  /\ timers # EmptyBag
  /\ scenario' = [scenario EXCEPT !.phase = "drain"]
  /\ UNCHANGED <<mvars, timers, loads, fileLoads, ticks, ev, call>>

BurstNext ==
  \/ scenario.phase = "keys" /\ timers = EmptyBag /\ UNCHANGED <<scenario, call>>
       /\ \E fs \in CoreLists : FilesLoaded(fs)
  \/ scenario.phase = "keys" /\ timers = EmptyBag /\ UNCHANGED <<scenario, call>>
       /\ \E s \in WindowSizes : WindowSize(s[1], s[2])
  \/ scenario.phase = "keys" /\ KeyUp(MaxBurst) /\ UNCHANGED <<scenario, call>>
  \/ scenario.phase = "keys" /\ KeyDown(MaxBurst) /\ UNCHANGED <<scenario, call>>
  \/ scenario.phase = "keys" /\ KeyShiftUp(MaxBurst) /\ UNCHANGED <<scenario, call>>
  \/ EndBurst
  \/ scenario.phase = "drain" /\ \E idx \in BagToSet(timers) : BurstRequest(idx)
  \/ scenario.phase = "drain" /\ UNCHANGED <<scenario, call>>
       /\ \E msg \in BagToSet(loads) : PreviewLoaded(msg)

SpecBurst == BurstInit /\ [][BurstNext]_vars

----------------------------------------------------------------------------
(* SpecCache: the program over a.go (uncommitted) and b.go (committed),    *)
(* with at most one timer and one load under way; scenario.applied records *)
(* the committed paths p such that a load built from p was applied.        *)

IsCommitted(fs, path) ==
  \E i \in DOMAIN fs : fs[i].Path = path /\ fs[i].Status = "committed"

CacheLoaded(msg) ==
  /\ PreviewLoaded(msg)
  /\ scenario' = IF LoadAccepted(msg.selectedIndex, selected)
                    /\ IsCommitted(files, msg.preview.src)
                   THEN [scenario EXCEPT !.applied = @ \cup {msg.preview.src}]
                   ELSE scenario
  /\ UNCHANGED call

CacheNext ==
  \/ KeyUp(MaxPending) /\ UNCHANGED <<scenario, call>>
  \/ KeyDown(MaxPending) /\ UNCHANGED <<scenario, call>>
  \/ KeyShiftUp(MaxPending) /\ UNCHANGED <<scenario, call>>
  \/ \E s \in WindowSizes : WindowSize(s[1], s[2]) /\ UNCHANGED <<scenario, call>>
  \/ Tick /\ UNCHANGED <<scenario, call>>
  \/ \E fs \in CacheLists : FilesLoaded(fs) /\ UNCHANGED <<scenario, call>>
  \/ \E idx \in BagToSet(timers) : PreviewRequest(idx, MaxLoads) /\ UNCHANGED <<scenario, call>>
  \/ \E msg \in BagToSet(loads) : CacheLoaded(msg)

SpecCache == Init /\ [][CacheNext]_vars

----------------------------------------------------------------------------
(* SpecRecommit: the program over a.go and b.go, where b.go is committed,  *)
(* modified and committed again (at most one timer and one load under way). *)

RecommitNext ==
  \/ KeyUp(MaxPending) /\ UNCHANGED <<scenario, call>>
  \/ KeyDown(MaxPending) /\ UNCHANGED <<scenario, call>>
  \/ KeyShiftUp(MaxPending) /\ UNCHANGED <<scenario, call>>
  \/ \E s \in WindowSizes : WindowSize(s[1], s[2]) /\ UNCHANGED <<scenario, call>>
  \/ Tick /\ UNCHANGED <<scenario, call>>
  \/ \E fs \in RecommitLists : FilesLoaded(fs) /\ UNCHANGED <<scenario, call>>
  \/ \E idx \in BagToSet(timers) : PreviewRequest(idx, MaxLoads) /\ UNCHANGED <<scenario, call>>
  \/ \E msg \in BagToSet(loads) : PreviewLoaded(msg) /\ UNCHANGED <<scenario, call>>

SpecRecommit == Init /\ [][RecommitNext]_vars

----------------------------------------------------------------------------
(* SpecFail: the program over two files of fixed status where GetStatus    *)
(* can fail (at most one timer and one load under way).  scenario.phase    *)
(* tells whether the last list load failed.                                *)

\* GetStatus: files, nil or nil, err
StatusOk(fs) == [files |-> fs, err |-> FALSE]
StatusErr == [files |-> <<>>, err |-> TRUE]

\* loadFiles: files, _ := git.GetStatus(m.dir); filesLoadedMsg{files}
LoadFiles(r) == r.files

FilesLoadedAfter(r) ==
  /\ FilesLoaded(LoadFiles(r))
  /\ scenario' = [scenario EXCEPT !.phase = IF r.err THEN "failed" ELSE "ok"]
  /\ UNCHANGED call

FailNext ==
  \/ KeyUp(MaxPending) /\ UNCHANGED <<scenario, call>>
  \/ KeyDown(MaxPending) /\ UNCHANGED <<scenario, call>>
  \/ KeyShiftUp(MaxPending) /\ UNCHANGED <<scenario, call>>
  \/ \E s \in WindowSizes : WindowSize(s[1], s[2]) /\ UNCHANGED <<scenario, call>>
  \/ Tick /\ UNCHANGED <<scenario, call>>
  \/ \E fs \in LiveLists : FilesLoadedAfter(StatusOk(fs))
  \/ FilesLoadedAfter(StatusErr)
  \/ \E idx \in BagToSet(timers) : PreviewRequest(idx, MaxLoads) /\ UNCHANGED <<scenario, call>>
  \/ \E msg \in BagToSet(loads) : PreviewLoaded(msg) /\ UNCHANGED <<scenario, call>>

SpecFail == Init /\ [][FailNext]_vars

----------------------------------------------------------------------------
(* SpecView: the program with two window sizes of different width and     *)
(* height, the list-height keys and the preview scroll inputs.  call holds *)
(* the content string the viewport was last given (viewport.SetContent):   *)
(* the string renderPreviewContent returns is determined by the preview,   *)
(* the width it is wrapped and padded at and, for a message, the height.   *)

RenderPreviewContent(pv, w, h) ==
  IF ~pv.Valid THEN [fn |-> "renderPreviewContent", text |-> "empty"]
  ELSE IF pv.Message # ""
    THEN [fn |-> "renderPreviewContent", text |-> "message", preview |-> pv,
          width |-> w, height |-> h]
  ELSE IF pv.RawLines = 0 THEN [fn |-> "renderPreviewContent", text |-> "empty"]
  ELSE [fn |-> "renderPreviewContent", text |-> "lines", preview |-> pv,
        width |-> w]

\* The content of the viewport after a step: the handlers that call
\* viewport.SetContent give it the rendering of the preview they leave, at
\* the width they leave; a resize or a list-height key calls it unless
\* updatePreview finds the selected file already loaded.
ContentAfter ==
  IF \/ ev'.kind \in {"files", "request-cached", "loaded"}
     \/ /\ ev'.kind \in {"resize", "plus", "minus"}
        /\ ~(Len(files) > 0 /\ AlreadyLoaded(selected, lastSelectedFile, preview))
    THEN RenderPreviewContent(preview', width', viewport'.Height)
    ELSE call

ViewSizes == {<<80, 20>>, <<40, 24>>}
WheelRows == {5, 15}

ViewInit ==
  /\ InitModel
  /\ scenario = Scenario("view", <<>>, <<>>, {})
  /\ call = RenderPreviewContent(EmptyPreview, 0, 0)

ViewNext ==
  \/ KeyUp(MaxPending) /\ call' = ContentAfter /\ UNCHANGED scenario
  \/ KeyDown(MaxPending) /\ call' = ContentAfter /\ UNCHANGED scenario
  \/ KeyPlus /\ listHeight < InitListHeight + MaxListResize
       /\ call' = ContentAfter /\ UNCHANGED scenario
  \/ KeyMinus /\ listHeight > InitListHeight - MaxListResize
       /\ call' = ContentAfter /\ UNCHANGED scenario
  \/ \E key \in ScrollKeys : ScrollKey(key) /\ call' = ContentAfter /\ UNCHANGED scenario
  \/ \E down \in BOOLEAN, y \in WheelRows :
        MouseWheel(down, y) /\ call' = ContentAfter /\ UNCHANGED scenario
  \/ \E s \in ViewSizes : WindowSize(s[1], s[2]) /\ call' = ContentAfter /\ UNCHANGED scenario
  \/ Tick /\ call' = ContentAfter /\ UNCHANGED scenario
  \/ \E fs \in LiveLists : FilesLoaded(fs) /\ call' = ContentAfter /\ UNCHANGED scenario
  \/ \E idx \in BagToSet(timers) :
        PreviewRequest(idx, MaxLoads) /\ call' = ContentAfter /\ UNCHANGED scenario
  \/ \E msg \in BagToSet(loads) : PreviewLoaded(msg) /\ call' = ContentAfter /\ UNCHANGED scenario

SpecView == ViewInit /\ [][ViewNext]_vars

----------------------------------------------------------------------------
(* SpecClassify: the program over entries that are deleted, unsupported or *)
(* unreadable.  call names the entry of the load started last.             *)

ClassifyLists ==
  FileListsOver(
    {[Path |-> "a.go", Status |-> "uncommitted", GitCode |-> <<" ", "M">>,
      Unreadable |-> FALSE],
     [Path |-> "a.go", Status |-> "uncommitted", GitCode |-> <<" ", "D">>,
      Unreadable |-> TRUE],
     [Path |-> "a.go", Status |-> "uncommitted", GitCode |-> <<" ", "M">>,
      Unreadable |-> TRUE],
     [Path |-> "LICENSE", Status |-> "uncommitted", GitCode |-> <<"D", " ">>,
      Unreadable |-> FALSE],
     [Path |-> "LICENSE", Status |-> "uncommitted", GitCode |-> <<" ", "M">>,
      Unreadable |-> TRUE]}, MaxFiles)

\* history: the loads under way with the entries they were started for, and
\* the entry of the load delivered last
StartedLoad ==
  IF ev'.kind = "request-load"
    THEN [fn |-> "loadPreviewAsync",
          file |-> files[ev'.idx + 1],
          started |-> (IF call.fn = "loadPreviewAsync" THEN call.started ELSE {})
                        \cup {[msg |-> LoadPreviewAsync(files, ev'.idx),
                               file |-> files[ev'.idx + 1]]}]
    ELSE call

\* the load that delivers msg, and the entry it was started for
DeliveredLoad(msg) ==
  /\ call.fn = "loadPreviewAsync"
  /\ \E p \in call.started :
        /\ p.msg = msg
        /\ call' = [call EXCEPT !.file = p.file,
                                !.started = IF BagIn(msg, loads') THEN @
                                            ELSE {q \in @ : q.msg # msg}]

ClassifyNext ==
  \/ KeyUp(MaxPending) /\ UNCHANGED <<scenario, call>>
  \/ KeyDown(MaxPending) /\ UNCHANGED <<scenario, call>>
  \/ KeyShiftUp(MaxPending) /\ UNCHANGED <<scenario, call>>
  \/ \E s \in WindowSizes : WindowSize(s[1], s[2]) /\ UNCHANGED <<scenario, call>>
  \/ Tick /\ UNCHANGED <<scenario, call>>
  \/ \E fs \in ClassifyLists : FilesLoaded(fs) /\ UNCHANGED <<scenario, call>>
  \/ \E idx \in BagToSet(timers) :
        PreviewRequest(idx, MaxLoads) /\ call' = StartedLoad /\ UNCHANGED scenario
  \/ \E msg \in BagToSet(loads) :
        PreviewLoaded(msg) /\ DeliveredLoad(msg) /\ UNCHANGED scenario

SpecClassify == Init /\ [][ClassifyNext]_vars

----------------------------------------------------------------------------
(* SpecLive: the program runs over two files of fixed status (at most one  *)
(* timer and one load under way) until the user stops pressing keys and the status provider   *)
(* keeps reporting one list, scenario.list.  Timers fire, loads complete   *)
(* and the 2-second tick keeps refreshing: weak fairness on each.          *)

LiveInit ==
  InitModel /\ scenario = Scenario("busy", <<>>, <<>>, {}) /\ call = NoCall

GoQuiet(fs) ==
  /\ scenario.phase = "busy"
  /\ scenario' = [scenario EXCEPT !.phase = "quiet", !.list = fs]
  /\ UNCHANGED <<mvars, timers, loads, fileLoads, ticks, ev, call>>

LiveTick == Tick /\ UNCHANGED <<scenario, call>>

LiveFiles ==
  /\ UNCHANGED <<scenario, call>>
  /\ IF scenario.phase = "quiet" THEN FilesLoaded(scenario.list)
     ELSE \E fs \in LiveLists : FilesLoaded(fs)

LiveRequest == \E idx \in BagToSet(timers) : PreviewRequest(idx, MaxLoads) /\ UNCHANGED <<scenario, call>>

LiveLoaded == \E msg \in BagToSet(loads) : PreviewLoaded(msg) /\ UNCHANGED <<scenario, call>>

LiveNext ==
  \/ scenario.phase = "busy" /\ KeyUp(MaxPending) /\ UNCHANGED <<scenario, call>>
  \/ scenario.phase = "busy" /\ KeyDown(MaxPending) /\ UNCHANGED <<scenario, call>>
  \/ scenario.phase = "busy" /\ KeyShiftUp(MaxPending) /\ UNCHANGED <<scenario, call>>
  \/ \E s \in WindowSizes : WindowSize(s[1], s[2]) /\ UNCHANGED <<scenario, call>>
  \/ \E fs \in LiveLists : GoQuiet(fs)
  \/ LiveTick
  \/ LiveFiles
  \/ LiveRequest
  \/ LiveLoaded

SpecLive ==
  /\ LiveInit
  /\ [][LiveNext]_vars
  /\ WF_vars(LiveTick)
  /\ WF_vars(LiveFiles)
  /\ WF_vars(LiveRequest)
  /\ WF_vars(LiveLoaded)

----------------------------------------------------------------------------
(* SpecTick: SpecLive's program with RefreshMsg deliveries added.  The     *)
(* tick timer fires whenever armed (the cap on running list loads is the   *)
(* only thing that disables it, hence strong fairness); list loads end.    *)

TickFiles == \E fs \in LiveLists : FilesLoaded(fs) /\ UNCHANGED <<scenario, call>>

TickTick == Tick /\ UNCHANGED <<scenario, call>>

TickNext ==
  \/ KeyUp(MaxPending) /\ UNCHANGED <<scenario, call>>
  \/ KeyDown(MaxPending) /\ UNCHANGED <<scenario, call>>
  \/ KeyShiftUp(MaxPending) /\ UNCHANGED <<scenario, call>>
  \/ \E s \in WindowSizes : WindowSize(s[1], s[2]) /\ UNCHANGED <<scenario, call>>
  \/ TickTick
  \/ Refresh /\ UNCHANGED <<scenario, call>>
  \/ TickFiles
  \/ \E idx \in BagToSet(timers) :
        PreviewRequest(idx, MaxLoads) /\ UNCHANGED <<scenario, call>>
  \/ \E msg \in BagToSet(loads) : PreviewLoaded(msg) /\ UNCHANGED <<scenario, call>>

SpecTick == Init /\ [][TickNext]_vars /\ SF_vars(TickTick) /\ WF_vars(TickFiles)

----------------------------------------------------------------------------
(* SpecDiff: GetDiffLines over the outputs of `git diff -U0`.  A diff is   *)
(* described by its hunks (the header and the kinds of the lines under it) *)
(* and printed to the text the scanner reads.                              *)

\* The lines under a hunk header: an added line, a deleted line, an added
\* line whose text begins with "++", a deleted line whose text begins with
\* "--", and the end-of-file marker of git.
LineKinds == {"add", "del", "add++", "del--", "noeol"}

LineText(kind) ==
  CASE kind = "add" -> <<"+", "a">>
    [] kind = "del" -> <<"-", "a">>
    [] kind = "add++" -> <<"+", "+", "+", "i">>
    [] kind = "del--" -> <<"-", "-", "-", "x">>
    [] OTHER -> <<"\\", " ", "N">>

IsPlus(kind) == kind \in {"add", "add++"}
IsMinus(kind) == kind \in {"del", "del--"}

CountPlus(body) == Cardinality({i \in DOMAIN body : IsPlus(body[i])})
CountMinus(body) == Cardinality({i \in DOMAIN body : IsMinus(body[i])})

\* The header of a hunk: written by git ("ok"), without a new range
\* ("noplus"), with a new start that is no number ("nan"), or absent.
Heads == {"ok", "noplus", "nan", "none"}

HeadLines(h) ==
  CASE h.head = "ok" ->
         <<HunkHeader(IF CountMinus(h.body) = 0 THEN h.ns ELSE h.ns + 1,
                      CountMinus(h.body), h.ns, CountPlus(h.body))>>
    [] h.head = "noplus" -> <<(<<"@", "@", " ", "-", "1", " ", "@", "@">>)>>
    [] h.head = "nan" -> <<(<<"@", "@", " ", "-", "1", " ", "+", "x", " ", "@", "@">>)>>
    [] OTHER -> <<>>

HunkLines(h) == HeadLines(h) \o [i \in DOMAIN h.body |-> LineText(h.body[i])]

\* "diff --git a/f b/f", "--- a/f", "+++ b/f"
Preamble ==
  << <<"d", "i", "f", "f">>, <<"-", "-", "-", " ", "a">>, <<"+", "+", "+", " ", "b">> >>

RECURSIVE Flatten(_)
Flatten(ss) == IF ss = <<>> THEN <<>> ELSE Head(ss) \o Flatten(Tail(ss))

DiffOutput(src) ==
  (IF src.pre THEN Preamble ELSE <<>>)
    \o Flatten([i \in DOMAIN src.hunks |-> HunkLines(src.hunks[i])])

\* For each line of the output: the hunk it belongs to (0: preamble) and its
\* place under the header (0: the header itself).
HunkOrigins(h, n) ==
  [i \in 1..Len(HeadLines(h)) |-> [hunk |-> n, at |-> 0]]
    \o [i \in DOMAIN h.body |-> [hunk |-> n, at |-> i]]

Origins(src) ==
  (IF src.pre THEN [i \in DOMAIN Preamble |-> [hunk |-> 0, at |-> 0]] ELSE <<>>)
    \o Flatten([i \in DOMAIN src.hunks |-> HunkOrigins(src.hunks[i], i)])

Bodies == UNION {[1..n -> LineKinds] : n \in 0..MaxBody}

Hunks == [head : Heads \ {"none"}, ns : 0..MaxStart, body : Bodies]

\* A new start is printed only in the "ok" header, and git prints the new
\* start 0 only for a hunk that adds nothing; a diff without any header is
\* one "none" hunk.
HunkOk(h) ==
  IF h.head = "ok" THEN h.ns = 0 => CountPlus(h.body) = 0 ELSE h.ns = 0

DiffSources ==
  {[pre |-> p, hunks |-> hs] :
     p \in BOOLEAN,
     hs \in {hs \in UNION {[1..n -> Hunks] : n \in 0..MaxHunks} :
               \A i \in DOMAIN hs : HunkOk(hs[i])}}
  \cup {[pre |-> p, hunks |-> <<[head |-> "none", ns |-> 0, body |-> b]>>] :
          p \in BOOLEAN, b \in Bodies \ {<<>>}}

DiffCall(src, err) ==
  [fn |-> "GetDiffLines", src |-> src, output |-> DiffOutput(src), err |-> err,
   pos |-> 0, lineNum |-> 0, result |-> EmptyMap, done |-> FALSE]

DiffInit ==
  /\ InitModel
  /\ scenario = Scenario("diff", <<>>, <<>>, {})
  /\ \/ \E src \in DiffSources : call = DiffCall(src, FALSE)
     \/ call = DiffCall([pre |-> FALSE, hunks |-> <<>>], TRUE)

\* for scanner.Scan() { ... }: one round
DiffScan ==
  /\ call.fn = "GetDiffLines" /\ ~call.done /\ ~call.err
  /\ call.pos < Len(call.output)
  /\ LET r == ScanLine(call.output[call.pos + 1], call.lineNum, call.result)
     IN call' = [call EXCEPT !.pos = @ + 1, !.lineNum = r.lineNum,
                             !.result = r.result]
  /\ UNCHANGED <<mvars, timers, loads, fileLoads, ticks, ev, scenario>>

\* return result (at once when git failed)
DiffReturn ==
  /\ call.fn = "GetDiffLines" /\ ~call.done
  /\ call.err \/ call.pos = Len(call.output)
  /\ call' = [call EXCEPT !.done = TRUE]
  /\ UNCHANGED <<mvars, timers, loads, fileLoads, ticks, ev, scenario>>

DiffNext == DiffScan \/ DiffReturn

SpecDiff == DiffInit /\ [][DiffNext]_vars

----------------------------------------------------------------------------
(* The ANSI text engine: visibleWidth, sliceToWidth, wrapLine and          *)
(* wrapAllLines.  A highlighted line is a sequence of elements: "esc" is   *)
(* an SGR colour sequence, "reset" the SGR reset, "sp" a space, "ch" a     *)
(* narrow rune and "wide" a double-width rune.                             *)

WrapElems == {"esc", "reset", "sp", "ch", "wide"}

\* columns the rendered gutter takes: "  " and the two-column glyph
GutterVisibleWidth == 4

RuneWidth(x) == CASE x \in {"esc", "reset"} -> 0 [] x = "wide" -> 2 [] OTHER -> 1

RECURSIVE VisibleWidth(_)
VisibleWidth(s) ==
  IF s = <<>> THEN 0 ELSE RuneWidth(Head(s)) + VisibleWidth(Tail(s))

\* the number of elements of s taken before the next rune would exceed
\* maxWidth columns; escape sequences are never counted
RECURSIVE SliceEnd(_, _, _, _)
SliceEnd(s, i, used, maxWidth) ==
  IF i > Len(s) THEN Len(s)
  ELSE IF used + RuneWidth(s[i]) > maxWidth THEN i - 1
  ELSE SliceEnd(s, i + 1, used + RuneWidth(s[i]), maxWidth)

\* the SGR codes of s no reset has cancelled
RECURSIVE OpenAnsi(_)
OpenAnsi(s) ==
  IF s = <<>> THEN <<>>
  ELSE LET before == OpenAnsi(SubSeq(s, 1, Len(s) - 1))
           x == s[Len(s)]
       IN IF x = "reset" THEN <<>>
          ELSE IF x = "esc" THEN Append(before, x)
          ELSE before

SliceToWidthInclusive(s, maxWidth) ==
  LET n == Min(SliceEnd(s, 1, 0, maxWidth) + 1, Len(s))
      content == SubSeq(s, 1, n)
      remainder == SubSeq(s, n + 1, Len(s))
      carryAnsi == IF remainder = <<>> THEN <<>> ELSE OpenAnsi(content)
  IN [content |-> IF carryAnsi = <<>> THEN content
                  ELSE Append(content, "reset"),
      remainder |-> remainder,
      carryAnsi |-> carryAnsi]

SliceToWidth(s, maxWidth) ==
  LET n == SliceEnd(s, 1, 0, maxWidth)
      content == SubSeq(s, 1, n)
      remainder == SubSeq(s, n + 1, Len(s))
      carryAnsi == IF remainder = <<>> THEN <<>> ELSE OpenAnsi(content)
  IN [content |-> IF carryAnsi = <<>> THEN content
                  ELSE Append(content, "reset"),
      remainder |-> remainder,
      carryAnsi |-> carryAnsi]

\* a width at or below the floor is clamped upward
ClampWidth(w, floor) == IF w <= floor THEN floor ELSE w

\* the leading whitespace of the raw line
RECURSIVE LeadingSpace(_)
LeadingSpace(raw) ==
  IF raw = <<>> \/ Head(raw) # "sp" THEN 0 ELSE 1 + LeadingSpace(Tail(raw))

RawLine(line) == SelectSeq(line, LAMBDA x : x \notin {"esc", "reset"})

\* the hanging indent of a continuation: the raw line's leading whitespace,
\* capped at half the available content width
HangingIndent(raw, contentWidth) ==
  Min(LeadingSpace(raw), contentWidth \div 2)

Spaces(n) == [i \in 1..n |-> "sp"]

GutterGlyph(diffStatus) ==
  CASE diffStatus = "added" -> "+ " [] diffStatus = "deleted" -> "- "
    [] OTHER -> ". "

WrapSegmentTrim(rest, carry, raw, maxWidth, diffStatus, logicalIndex, seg) ==
  LET contentWidth == maxWidth - GutterVisibleWidth
      indent == IF seg = 0 THEN 0 ELSE HangingIndent(raw, contentWidth)
      trimmed == IF seg = 0 THEN rest
                 ELSE SubSeq(rest, LeadingSpace(rest) + 1, Len(rest))
      sl == SliceToWidth(carry \o trimmed, contentWidth - indent)
  IN [vl |-> [logicalIndex |-> logicalIndex, segmentIndex |-> seg,
              gutter |-> IF seg = 0 THEN GutterGlyph(diffStatus) ELSE "  ",
              text |-> Spaces(indent) \o sl.content,
              diffStatus |-> diffStatus],
      rest |-> sl.remainder,
      carry |-> sl.carryAnsi,
      progress |-> Len(sl.remainder) < Len(rest) \/ rest = <<>>]

\* one round of wrapLine: the next VisualLine and what is left to wrap
WrapSegment(rest, carry, raw, maxWidth, diffStatus, logicalIndex, seg) ==
  LET contentWidth == maxWidth - GutterVisibleWidth
      indent == IF seg = 0 THEN 0 ELSE HangingIndent(raw, contentWidth)
      sl == SliceToWidth(carry \o rest, contentWidth - indent)
  IN [vl |-> [logicalIndex |-> logicalIndex, segmentIndex |-> seg,
              gutter |-> IF seg = 0 THEN GutterGlyph(diffStatus) ELSE "  ",
              text |-> Spaces(indent) \o sl.content,
              diffStatus |-> diffStatus],
      rest |-> sl.remainder,
      carry |-> sl.carryAnsi,
      progress |-> Len(sl.remainder) < Len(rest) \/ rest = <<>>]

----------------------------------------------------------------------------
(* SpecWrap: wrapAllLines on a preview content of at most MaxContentLines  *)
(* lines of at most MaxRunes elements, at every width up to MaxWrapWidth.  *)
(* The floor is the gutter and one to MaxFloorCols columns.  The lines of  *)
(* the content are drawn as wrapAllLines reaches them.                     *)

RECURSIVE SeqsUpTo(_, _)
SeqsUpTo(S, n) ==
  IF n = 0 THEN {<<>>}
  ELSE LET shorter == SeqsUpTo(S, n - 1)
       IN shorter \cup {Append(t, x) : t \in shorter, x \in S}

WrapLines == SeqsUpTo(WrapElems, MaxRunes)
WrapStatuses == {"added", "deleted", ""}
WrapFloors == {GutterVisibleWidth + c : c \in 1..MaxFloorCols}

WrapCall(w, floor, line, diffStatus, logicalIndex) ==
  [fn |-> "wrapAllLines", width |-> w, floor |-> floor,
   maxWidth |-> ClampWidth(w, floor),
   line |-> line, diffStatus |-> diffStatus, logicalIndex |-> logicalIndex,
   rest |-> line, carry |-> <<>>, seg |-> 0, out |-> <<>>,
   lineDone |-> FALSE, done |-> FALSE]

WrapInit ==
  /\ InitModel
  /\ scenario = Scenario("wrap", <<>>, <<>>, {})
  /\ \E w \in 0..MaxWrapWidth, floor \in WrapFloors, line \in WrapLines,
        st \in WrapStatuses : call = WrapCall(w, floor, line, st, 0)

\* wrapLine: one segment
WrapStep ==
  /\ call.fn = "wrapAllLines" /\ ~call.done /\ ~call.lineDone
  /\ LET r == WrapSegment(call.rest, call.carry, RawLine(call.line),
                          call.maxWidth, call.diffStatus, call.logicalIndex,
                          call.seg)
     IN /\ r.progress
        /\ call' = [call EXCEPT !.out = Append(@, r.vl), !.rest = r.rest,
                                !.carry = r.carry, !.seg = @ + 1,
                                !.lineDone = r.rest = <<>>]
  /\ UNCHANGED <<mvars, timers, loads, fileLoads, ticks, ev, scenario>>

\* wrapAllLines: the next logical line
WrapNextLine ==
  /\ call.fn = "wrapAllLines" /\ ~call.done /\ call.lineDone
  /\ call.logicalIndex + 1 < MaxContentLines
  /\ \E line \in WrapLines, st \in WrapStatuses :
        call' = WrapCall(call.width, call.floor, line, st,
                         call.logicalIndex + 1)
  /\ UNCHANGED <<mvars, timers, loads, fileLoads, ticks, ev, scenario>>

WrapReturn ==
  /\ call.fn = "wrapAllLines" /\ ~call.done /\ call.lineDone
  /\ call' = [call EXCEPT !.done = TRUE]
  /\ UNCHANGED <<mvars, timers, loads, fileLoads, ticks, ev, scenario>>

WrapNext == WrapStep \/ WrapNextLine \/ WrapReturn

SpecWrap == WrapInit /\ [][WrapNext]_vars

----------------------------------------------------------------------------
(* wrapAllLines as a function, and the wrap cache of a PreviewContent      *)

\* wrapLine: the segments of one logical line (no segment is produced when
\* sliceToWidth cannot take the next rune)
RECURSIVE WrapLine(_, _, _, _, _, _, _)
WrapLine(rest, carry, raw, maxWidth, diffStatus, logicalIndex, seg) ==
  LET r == WrapSegment(rest, carry, raw, maxWidth, diffStatus, logicalIndex, seg)
  IN IF ~r.progress THEN <<>>
     ELSE IF r.rest = <<>> THEN <<r.vl>>
     ELSE <<r.vl>> \o WrapLine(r.rest, r.carry, raw, maxWidth, diffStatus,
                               logicalIndex, seg + 1)

RECURSIVE WrapFrom(_, _, _, _)
WrapFrom(lines, diffStatus, maxWidth, i) ==
  IF i > Len(lines) THEN <<>>
  ELSE WrapLine(lines[i], <<>>, RawLine(lines[i]), maxWidth, diffStatus, i - 1, 0)
         \o WrapFrom(lines, diffStatus, maxWidth, i + 1)

WrapAllLines(lines, diffStatus, w, floor) ==
  WrapFrom(lines, diffStatus, ClampWidth(w, floor), 1)

\* WrappedByWidth: nil, or a map from width to wrapped lines
NilMap == [nil |-> TRUE, byWidth |-> <<>>]
MakeMap == [nil |-> FALSE, byWidth |-> <<>>]

ResetWrapCache(pc) == [pc EXCEPT !.WrappedByWidth = MakeMap]

WrappedLinesAnyWidth(pc, w, floor) ==
  LET made == IF pc.WrappedByWidth.nil THEN MakeMap ELSE pc.WrappedByWidth
      ok == DOMAIN made.byWidth # {}
      lines == WrapAllLines(pc.HighlightedLines, pc.DiffStatus, w, floor)
  IN IF ok
       THEN [lines |-> made.byWidth[CHOOSE k \in DOMAIN made.byWidth : TRUE],
             hit |-> TRUE, pc |-> [pc EXCEPT !.WrappedByWidth = made]]
       ELSE [lines |-> lines, hit |-> FALSE,
             pc |-> [pc EXCEPT !.WrappedByWidth =
                       [made EXCEPT !.byWidth = MapPut(made.byWidth, w, lines)]]]

WrappedLinesForWidth(pc, w, floor) ==
  LET made == IF pc.WrappedByWidth.nil THEN MakeMap ELSE pc.WrappedByWidth
      ok == w \in DOMAIN made.byWidth
      lines == WrapAllLines(pc.HighlightedLines, pc.DiffStatus, w, floor)
  IN IF ok
       THEN [lines |-> made.byWidth[w], hit |-> TRUE,
             pc |-> [pc EXCEPT !.WrappedByWidth = made]]
       ELSE [lines |-> lines, hit |-> FALSE,
             pc |-> [pc EXCEPT !.WrappedByWidth =
                       [made EXCEPT !.byWidth = MapPut(made.byWidth, w, lines)]]]

----------------------------------------------------------------------------
(* SpecWrapCache: one PreviewContent of at most MaxContentLines lines of   *)
(* spaces and narrow runes, asked for its wrapped lines at the             *)
(* MaxCacheWidths widths below MaxWrapWidth and reset, in any order.       *)
(* call.first records what the first call at each width returned.          *)

CacheElems == {"sp", "ch"}
CacheContents ==
  {c \in SeqsUpTo(SeqsUpTo(CacheElems, MaxRunes), MaxContentLines) : c # <<>>}
CacheWidths == {w \in 0..MaxWrapWidth : w + MaxCacheWidths >= MaxWrapWidth}

WrapCacheInit ==
  /\ InitModel
  /\ scenario = Scenario("wrapcache", <<>>, <<>>, {})
  /\ \E c \in CacheContents, st \in {"added", ""}, floor \in WrapFloors :
        call = [fn |-> "WrappedLinesForWidth",
                pc |-> [HighlightedLines |-> c, DiffStatus |-> st,
                        WrappedByWidth |-> NilMap],
                floor |-> floor, op |-> "new", width |-> -1, lines |-> <<>>,
                hit |-> FALSE, again |-> FALSE, first |-> <<>>]

WrapCacheCall(w) ==
  /\ call.fn = "WrappedLinesForWidth"
  /\ LET r == WrappedLinesForWidth(call.pc, w, call.floor)
     IN call' = [call EXCEPT !.pc = r.pc, !.op = "wrap", !.width = w,
                             !.lines = r.lines, !.hit = r.hit,
                             !.again = w \in DOMAIN call.first,
                             !.first = IF w \in DOMAIN @ THEN @
                                       ELSE MapPut(@, w, r.lines)]
  /\ UNCHANGED <<mvars, timers, loads, fileLoads, ticks, ev, scenario>>

WrapCacheReset ==
  /\ call.fn = "WrappedLinesForWidth"
  /\ call.op # "reset"
  /\ call' = [call EXCEPT !.pc = ResetWrapCache(@), !.op = "reset"]
  /\ UNCHANGED <<mvars, timers, loads, fileLoads, ticks, ev, scenario>>

WrapCacheNext ==
  \/ \E w \in CacheWidths : WrapCacheCall(w)
  \/ WrapCacheReset

SpecWrapCache == WrapCacheInit /\ [][WrapCacheNext]_vars

----------------------------------------------------------------------------
(* GetStatus: the entries of the root repository (uncommitted, then the    *)
(* recent commits), then those of each nested repository, one entry per    *)
(* display path, sorted by modification time.                              *)

Elems(q) == {q[i] : i \in DOMAIN q}

FileStatus(path, status, gitRoot) ==
  [Path |-> path, Status |-> status, GitRoot |-> gitRoot]

RECURSIVE EntriesOf(_, _, _)
EntriesOf(paths, status, gitRoot) ==
  IF paths = <<>> THEN <<>>
  ELSE <<FileStatus(Head(paths), status, gitRoot)>>
         \o EntriesOf(Tail(paths), status, gitRoot)

\* getNestedRepoFiles: the uncommitted files of the repository, then the
\* files of its recent commits it has not listed yet (seenInRepo)
RECURSIVE NestedCommitted(_, _, _)
NestedCommitted(paths, seenInRepo, gitRoot) ==
  IF paths = <<>> THEN <<>>
  ELSE IF Head(paths) \in seenInRepo
    THEN NestedCommitted(Tail(paths), seenInRepo, gitRoot)
  ELSE <<FileStatus(Head(paths), "committed", gitRoot)>>
         \o NestedCommitted(Tail(paths), seenInRepo \cup {Head(paths)}, gitRoot)

GetNestedRepoFiles(uncommitted, committed, gitRoot) ==
  EntriesOf(uncommitted, "uncommitted", gitRoot)
    \o NestedCommitted(committed, Elems(uncommitted), gitRoot)

\* if !seen[f.Path] { files = append(files, f); seen[f.Path] = true }
CollectAll(fs, seen, f) == [files |-> Append(fs, f), seen |-> seen \cup {f.Path}]

Collect(fs, seen, f) ==
  IF f.Path \in seen THEN [files |-> fs, seen |-> seen]
  ELSE [files |-> Append(fs, f), seen |-> seen \cup {f.Path}]

\* os.Stat(fullPath).ModTime() of the files of the directory
ModTime(path) ==
  CASE path = "a.go" -> 3 [] path = "sub/x.go" -> 2 [] OTHER -> 2

\* sort.Slice(files, ModTime.After): any order a sort by time can give
Orders(fs) ==
  {q \in [1..Len(fs) -> Elems(fs)] : \A f \in Elems(fs) : \E i \in 1..Len(fs) : q[i] = f}
SortedByModTime(fs) ==
  {q \in Orders(fs) :
     \A i, j \in 1..Len(q) : i < j => ModTime(q[i].Path) >= ModTime(q[j].Path)}

----------------------------------------------------------------------------
(* SpecStatus: GetStatus in a directory with a.go and the directory sub,   *)
(* which holds x.go and y.go and is a repository of its own; the root      *)
(* repository can report the files of sub too (it tracked them before).    *)

StatusPaths == {"a.go", "sub/x.go", "sub/y.go"}
NestedPaths == {"sub/x.go", "sub/y.go"}

PathSeqs(S, n) == SeqsUpTo(S, n)
DistinctSeqs(S, n) ==
  {q \in SeqsUpTo(S, n) : \A i, j \in DOMAIN q : i # j => q[i] # q[j]}

StatusCall(rootU, rootC, subU, subC, err) ==
  [fn |-> "GetStatus", err |-> err,
   reported |-> EntriesOf(rootU, "uncommitted", "root")
                  \o EntriesOf(rootC, "committed", "root")
                  \o GetNestedRepoFiles(subU, subC, "sub"),
   pos |-> 0, files |-> <<>>, seen |-> {}, done |-> FALSE, failed |-> FALSE]

StatusInit ==
  /\ InitModel
  /\ scenario = Scenario("status", <<>>, <<>>, {})
  /\ \/ \E rootU \in DistinctSeqs(StatusPaths, MaxReported),
           rootC \in PathSeqs(StatusPaths, MaxReported),
           subU \in DistinctSeqs(NestedPaths, MaxReported),
           subC \in PathSeqs(NestedPaths, MaxReported) :
           call = StatusCall(rootU, rootC, subU, subC, FALSE)
     \/ call = StatusCall(<<>>, <<>>, <<>>, <<>>, TRUE)

\* one round of the loops over uncommitted, committed and subFiles
StatusCollect ==
  /\ call.fn = "GetStatus" /\ ~call.done /\ ~call.err
  /\ call.pos < Len(call.reported)
  /\ LET r == Collect(call.files, call.seen, call.reported[call.pos + 1])
     IN call' = [call EXCEPT !.pos = @ + 1, !.files = r.files, !.seen = r.seen]
  /\ UNCHANGED <<mvars, timers, loads, fileLoads, ticks, ev, scenario>>

\* sort.Slice and return files, nil
StatusReturn ==
  /\ call.fn = "GetStatus" /\ ~call.done /\ ~call.err
  /\ call.pos = Len(call.reported)
  /\ \E q \in SortedByModTime(call.files) :
        call' = [call EXCEPT !.files = q, !.done = TRUE]
  /\ UNCHANGED <<mvars, timers, loads, fileLoads, ticks, ev, scenario>>

\* return nil, err
StatusFail ==
  /\ call.fn = "GetStatus" /\ ~call.done /\ call.err
  /\ call' = [call EXCEPT !.files = <<>>, !.done = TRUE, !.failed = TRUE]
  /\ UNCHANGED <<mvars, timers, loads, fileLoads, ticks, ev, scenario>>

StatusNext == StatusCollect \/ StatusReturn \/ StatusFail

SpecStatus == StatusInit /\ [][StatusNext]_vars

----------------------------------------------------------------------------
(* SpecScroll: the program in a directory that holds LICENSE and one      *)
(* uncommitted file, scenario.list[1], whose first changed line is         *)
(* anywhere in the file, at every preview height up to MaxViewHeight (at   *)
(* most one timer and one load under way).                                 *)

ScrollInit ==
  /\ InitModel
  /\ call = NoCall
  /\ \E p \in ScrollPathSet :
        scenario = Scenario("scroll", <<>>,
                            <<[Path |-> p, Status |-> "uncommitted"]>>, {})

ScrollNext ==
  \/ KeyUp(MaxPending) /\ UNCHANGED <<scenario, call>>
  \/ KeyDown(MaxPending) /\ UNCHANGED <<scenario, call>>
  \/ KeyShiftUp(MaxPending) /\ UNCHANGED <<scenario, call>>
  \/ \E s \in ScrollSizes : WindowSize(s[1], s[2]) /\ UNCHANGED <<scenario, call>>
  \/ Tick /\ UNCHANGED <<scenario, call>>
  \/ \E fs \in ScrollLists(scenario.list[1].Path) :
        FilesLoaded(fs) /\ UNCHANGED <<scenario, call>>
  \/ \E idx \in BagToSet(timers) :
        PreviewRequest(idx, MaxLoads) /\ UNCHANGED <<scenario, call>>
  \/ \E msg \in BagToSet(loads) : PreviewLoaded(msg) /\ UNCHANGED <<scenario, call>>

SpecScroll == ScrollInit /\ [][ScrollNext]_vars

----------------------------------------------------------------------------
(* Steps of the handlers, as the claims speak of them *)

\* A debounce timer with index idx fires.
RequestStep(idx) == BagIn(idx, timers) /\ timers' = timers (-) SetToBag({idx})

\* The load msg completes.
LoadedStep(msg) == BagIn(msg, loads) /\ loads' = loads (-) SetToBag({msg})

\* A filesLoadedMsg is handled.
FilesStep == fileLoads' = fileLoads - 1

InList(idx) == idx >= 0 /\ idx < Len(files)

----------------------------------------------------------------------------
(* C1 *)

\* C1: whenever the previewLoadedMsg handler installs a preview, that preview
\* was built from the file entry (path) that is selected at that moment.
C1_InstalledLoadIsSelected ==
  (ev.kind = "loaded" /\ Len(files) > 0) => preview.src = files[selected + 1].Path

(* C2 *)

\* C2: after a burst of selection changes that all happen before any of their
\* timers fires, and no further input, the timers start exactly one preview
\* load or cache serve, and it is for the final selection.
C2_BurstStartsOneLoad ==
  (scenario.phase = "drain" /\ timers = EmptyBag) => scenario.starts = <<selected>>

(* C3 *)

C3_StaleRequest ==
  \E idx \in BagToSet(timers) :
     RequestStep(idx) /\ (idx # previewPending \/ ~InList(idx))

C3_StaleLoad ==
  \E msg \in BagToSet(loads) : LoadedStep(msg) /\ msg.selectedIndex # selected

\* C3: a stale previewLoadedMsg (index other than the selected one) and a
\* stale previewRequestMsg (index other than previewPending, or outside the
\* list) leave preview, cache, viewport, lastSelectedFile, previewPending,
\* selection and file list unchanged and start no load.
C3_StaleIsNoOp ==
  [][/\ C3_StaleRequest => (UNCHANGED mvars /\ loads' = loads)
     /\ C3_StaleLoad => (UNCHANGED mvars /\ timers' = timers)]_vars

C3_Witness ==
  /\ ev.kind = "loaded-stale"
  /\ preview.Valid
  /\ viewport.YOffset > 0
  /\ DOMAIN previewCache # {}

(* C4 *)

\* C4: a filesLoadedMsg received while the selected index is not 0 selects
\* the index, in the new list, of the entry with the previously selected
\* path, and index 0 if no entry has that path.
C4_SelectionFollowsPath ==
  [][(FilesStep /\ selected # 0) =>
       LET path == files[selected + 1].Path
           found == {i \in DOMAIN files' : files'[i].Path = path}
       IN IF found = {} THEN selected' = 0
          ELSE \E i \in found : selected' = i - 1]_vars

\* The selected file moved from index 1 to index 3.
C4_Witness == ev.kind = "files" /\ ev.sel0 = 1 /\ selected = 3

(* C5 *)

\* C5: a filesLoadedMsg received while the selected index is 0 leaves it 0,
\* and the preview the refresh installs is built from the new first file
\* (the preview is cleared when the list is empty or no window size is known).
C5_AutoFollow ==
  [][(FilesStep /\ selected = 0) =>
       /\ selected' = 0
       /\ preview' = IF previewReady /\ Len(files') > 0
                       THEN BuildPreview(files'[1]) ELSE EmptyPreview]_vars

\* Auto-follow to a file other than the one index 0 held before: a load
\* started for index 0 when it held another path is still under way.
C5_Witness ==
  /\ ev.kind = "files" /\ ev.sel0 = 0 /\ ~ev.same
  /\ selected = 0 /\ Len(files) > 1
  /\ preview = BuildPreview(files[1])
  /\ \E msg \in BagToSet(loads) :
        msg.selectedIndex = 0 /\ msg.preview.src # files[1].Path

(* C6 *)

\* C6: with a non-empty file list, 0 <= selected <= len(files) - 1.
C6_SelectedInRange == Len(files) > 0 => (0 <= selected /\ selected <= Len(files) - 1)

\* The list shrank below the index selected before the refresh.
C6_Witness == ev.kind = "files" /\ ev.sel0 = 3 /\ Len(files) = 2 /\ selected = 1

(* C7 *)

\* C7: whenever the file list is empty, the selected index is 0 and the
\* preview is cleared.
C7_EmptyListClearsPreview == Len(files) = 0 => (selected = 0 /\ preview = EmptyPreview)

(* C8 *)

\* C8: when a timer is accepted for a committed entry whose load has already
\* been applied, the handler installs the cached preview and starts no load.
C8_SecondSelectionServedFromCache ==
  [][\A idx \in BagToSet(timers) :
       (/\ RequestStep(idx)
        /\ idx = previewPending /\ InList(idx)
        /\ files[idx + 1].Status = "committed"
        /\ files[idx + 1].Path \in scenario.applied)
       => (/\ loads' = loads
           /\ files[idx + 1].Path \in DOMAIN previewCache
           /\ preview' = previewCache[files[idx + 1].Path])]_vars

(* C9 *)

\* C9: no preview is installed from the cache for an entry that is
\* uncommitted at that moment; every timer accepted for an uncommitted entry
\* starts a fresh load; the cache only changes by a load applied while the
\* entry at the loaded index is committed.
C9_CacheOnlyCommitted ==
  /\ [](ev.kind = "request-cached" => files[ev.idx + 1].Status = "committed")
  /\ [][/\ \A idx \in BagToSet(timers) :
              (/\ RequestStep(idx)
               /\ idx = previewPending /\ InList(idx)
               /\ files[idx + 1].Status = "uncommitted")
              => (/\ loads' = loads (+) SetToBag({LoadPreviewAsync(files, idx)})
                  /\ preview' = preview)
        /\ previewCache' # previewCache =>
              \E msg \in BagToSet(loads) :
                 /\ LoadedStep(msg)
                 /\ InList(msg.selectedIndex)
                 /\ files[msg.selectedIndex + 1].Status = "committed"]_vars

\* A timer accepted for an uncommitted entry whose path is in the cache
\* started a load.
C9_Witness ==
  /\ ev.kind = "request-load"
  /\ files[ev.idx + 1].Status = "uncommitted"
  /\ files[ev.idx + 1].Path \in DOMAIN previewCache

(* C10 *)

C10_Shown ==
  /\ files = scenario.list
  /\ (previewReady /\ Len(files) > 0) => preview = BuildPreview(files[selected + 1])

\* C10: once the user presses no more keys and the refreshes keep delivering
\* one list, the installed preview eventually is, and stays, the one built
\* from the selected file.
C10_EventuallyShown == (scenario.phase = "quiet") ~> []C10_Shown

C10_Witness ==
  /\ scenario.phase = "quiet"
  /\ previewReady /\ Len(files) = 2 /\ selected = 1
  /\ C10_Shown
  /\ timers = EmptyBag /\ loads = EmptyBag
  /\ ev.kind = "loaded"

(* C11 *)

\* C11: exactly one periodic tick (armed timer or undelivered TickMsg) exists
\* at any time; each TickMsg starts exactly one file-list load; no handler
\* changes the number of ticks; the tick recurs forever.
C11_OneTickForever ==
  /\ [](ticks = 1)
  /\ [][/\ ticks' = ticks
        /\ ev'.kind = "tick" => fileLoads' = fileLoads + 1]_vars
  /\ []<>(ev.kind = "tick")

\* A RefreshMsg was handled after the list was loaded, and one tick is armed.
C11_Witness == ev.kind = "refresh" /\ ticks = 1 /\ Len(files) > 0 /\ fileLoads = 1

----------------------------------------------------------------------------
(* C12 .. C15: GetDiffLines *)

\* The scanner handles the next line of the output.
DiffScanStep == call.fn = "GetDiffLines" /\ call'.pos = call.pos + 1

\* The line being scanned lies under a header git wrote.
ScannedUnderHeader ==
  LET o == Origins(call.src)[call.pos + 1]
  IN o.hunk > 0 /\ o.at > 0 /\ call.src.hunks[o.hunk].head = "ok"

ScannedHunk == call.src.hunks[Origins(call.src)[call.pos + 1].hunk]
ScannedAt == Origins(call.src)[call.pos + 1].at

\* ... and every line under that header begins with '+' (with '-').
ScannedInPlus ==
  ScannedUnderHeader /\ \A i \in DOMAIN ScannedHunk.body : IsPlus(ScannedHunk.body[i])
ScannedInMinus ==
  ScannedUnderHeader /\ \A i \in DOMAIN ScannedHunk.body : IsMinus(ScannedHunk.body[i])

\* C12: in a hunk with new range +s,k that consists of k lines beginning
\* with '+', the j-th line records key s+j-1 as added and nothing else, so
\* the hunk maps exactly s .. s+k-1 to added.
C12_AddedHunkKeys ==
  [][(DiffScanStep /\ ScannedInPlus) =>
       call'.result = MapPut(call.result, ScannedHunk.ns + ScannedAt - 1, "added")]_vars

\* C13: in a hunk with new range +s,0 that consists only of lines beginning
\* with '-', every line records key s-1 as deleted and nothing else, and the
\* line counter stays s-1.
C13_DeletedHunkKey ==
  [][(DiffScanStep /\ ScannedInMinus) =>
       /\ call.lineNum = ScannedHunk.ns - 1
       /\ call'.lineNum = call.lineNum
       /\ call'.result = MapPut(call.result, ScannedHunk.ns - 1, "deleted")]_vars

\* A zero-context diff of a file whose new version has n lines: every hunk
\* has a header of git, deletions before additions, at least one line, a
\* new range inside the file (start 0 only for a deletion before line 1),
\* and the hunks follow each other.
HunkEnd(h) == IF CountPlus(h.body) = 0 THEN h.ns ELSE h.ns + CountPlus(h.body) - 1

WellFormed(src, n) ==
  /\ src.pre /\ src.hunks # <<>>
  /\ \A i \in DOMAIN src.hunks :
       LET h == src.hunks[i]
       IN /\ h.head = "ok" /\ h.body # <<>>
          /\ \A j \in DOMAIN h.body : IsPlus(h.body[j]) \/ IsMinus(h.body[j])
          /\ \A j, k \in DOMAIN h.body : (j < k /\ IsPlus(h.body[j])) => IsPlus(h.body[k])
          /\ IF CountPlus(h.body) = 0 THEN h.ns >= 0 ELSE h.ns >= 1
          /\ HunkEnd(h) <= n
          /\ i > 1 => h.ns > HunkEnd(src.hunks[i - 1])

\* C14: for a well-formed zero-context diff of a file whose new version has
\* n >= 1 lines, every key of the returned map is a line number in 1 .. n.
C14_KeysAreLineNumbers ==
  (call.fn = "GetDiffLines" /\ call.done) =>
     \A n \in 1..MaxNewLines :
        WellFormed(call.src, n) => DOMAIN call.result \subseteq 1..n

Malformed(src) ==
  src.hunks # <<>> /\ \A i \in DOMAIN src.hunks : src.hunks[i].head # "ok"

\* C15: for a malformed diff (no parseable hunk header, or a header whose
\* new start is not a number, possibly followed by '+' or '-' lines) the
\* classifier returns the empty map.
C15_MalformedGivesEmptyMap ==
  (call.fn = "GetDiffLines" /\ call.done /\ Malformed(call.src)) =>
     call.result = EmptyMap

----------------------------------------------------------------------------
(* C16, C17: the position of the preview *)

\* the index of the first changed visual line of the preview
FirstDiffIndex(pv) == SetMin(pv.DiffLines) - 1

Visible(vp, i) == vp.YOffset <= i /\ i < vp.YOffset + vp.Height

\* C16: after the previewLoadedMsg handler applies a load for an uncommitted
\* file with at least one diff line, the first changed visual line lies in
\* the window [YOffset, YOffset + Height).
C16_FirstDiffVisible ==
  (/\ ev.kind = "loaded" /\ InList(ev.idx)
   /\ files[ev.idx + 1].Status = "uncommitted"
   /\ preview.DiffLines # {})
  => Visible(viewport, FirstDiffIndex(preview))

\* C17: when a refresh changes which file is selected and the newly selected
\* file is uncommitted with at least one diff line, the preview the refresh
\* installs is positioned as scrollToFirstDiff positions it.
C17_RefreshScrollsToFirstDiff ==
  [][(/\ FilesStep
      /\ Len(files) > 0 /\ Len(files') > 0
      /\ files'[selected' + 1].Path # files[selected + 1].Path
      /\ previewReady
      /\ files'[selected' + 1].Status = "uncommitted"
      /\ preview'.DiffLines # {})
     => viewport' = ScrollToFirstDiff(preview', viewport')]_vars

----------------------------------------------------------------------------
(* C18, C19: the file list and the selection *)

\* C18: with a non-empty list, the slice of the list renderFileList draws
\* contains the selected index and has at most listHeight entries.
C18_SelectionIsDrawn ==
  Len(files) > 0 =>
    /\ VisibleStart(listScroll) <= selected
    /\ selected < VisibleEnd(listScroll, listHeight, Len(files))
    /\ VisibleEnd(listScroll, listHeight, Len(files))
         - VisibleStart(listScroll) <= listHeight

\* C19: a resize (a WindowSizeMsg, or the "+" or "-" key) changes neither
\* the selected index nor the file list.
C19_ResizeKeepsSelection ==
  [][ev'.kind \in {"resize", "plus", "minus"}
     => selected' = selected /\ files' = files]_vars

C19_Witness ==
  /\ ev.kind \in {"resize", "plus", "minus"}
  /\ Len(files) > 1 /\ selected > 0
  /\ ~(selected < VisibleEnd(listScroll, listHeight, Len(files)))

----------------------------------------------------------------------------
(* C20: the width of the wrapped lines *)

\* C20: every VisualLine wrapping produces, at every configured width, has
\* a text whose visible width plus the width of the gutter is at most the
\* configured width.
C20_WrappedFitsWidth ==
  call.fn = "wrapAllLines" =>
    \A i \in DOMAIN call.out :
       VisibleWidth(call.out[i].text) + GutterVisibleWidth <= call.width

\* C20 (amended): every VisualLine wrapping produces has a text whose
\* visible width plus the width of the gutter is at most the configured
\* width, or at most the floor when the configured width is at or below it.
C20_WrappedFitsClampedWidth ==
  call.fn = "wrapAllLines" =>
    \A i \in DOMAIN call.out :
       VisibleWidth(call.out[i].text) + GutterVisibleWidth
         <= Max(call.width, call.floor)

C20_Witness ==
  /\ call.fn = "wrapAllLines" /\ call.done
  /\ call.width <= call.floor
  /\ Len(call.out) > 1
  /\ \E i \in DOMAIN call.out :
        VisibleWidth(call.out[i].text) + GutterVisibleWidth > call.width

----------------------------------------------------------------------------
(* C21: the round trip of wrapping *)

RECURSIVE ConcatText(_)
ConcatText(out) ==
  IF out = <<>> THEN <<>> ELSE Head(out).text \o ConcatText(Tail(out))

\* the text of the segments without the hanging indent of the continuations
RECURSIVE ConcatUnindented(_, _)
ConcatUnindented(out, indent) ==
  IF out = <<>> THEN <<>>
  ELSE LET vl == Head(out)
           text == IF vl.segmentIndex = 0 THEN vl.text
                   ELSE SubSeq(vl.text, indent + 1, Len(vl.text))
       IN text \o ConcatUnindented(Tail(out), indent)

WrappedIndent ==
  HangingIndent(RawLine(call.line), call.maxWidth - GutterVisibleWidth)

----------------------------------------------------------------------------
(* C22: the wrap cache *)

----------------------------------------------------------------------------
(* C23: one entry per display path *)

NoTwoWithSamePath(fs) ==
  \A i, j \in DOMAIN fs : i # j => fs[i].Path # fs[j].Path

\* the first entry collected for a path
FirstReported(path) ==
  call.reported[CHOOSE i \in DOMAIN call.reported :
                  /\ call.reported[i].Path = path
                  /\ \A j \in 1..(i - 1) : call.reported[j].Path # path]

ReportedPaths == {call.reported[i].Path : i \in DOMAIN call.reported}

\* C23: the list GetStatus returns has no two entries with the same display
\* path, and a path some source reports as uncommitted has an uncommitted
\* entry.
C23_OnePerPathUncommittedWins ==
  (call.fn = "GetStatus" /\ call.done /\ ~call.failed)
  => /\ NoTwoWithSamePath(call.files)
     /\ \A i \in DOMAIN call.reported :
          call.reported[i].Status = "uncommitted"
          => \E k \in DOMAIN call.files :
               /\ call.files[k].Path = call.reported[i].Path
               /\ call.files[k].Status = "uncommitted"

\* C23 (amended): the list has no two entries with the same display path,
\* the entry of a path is the first one collected, and a path the root
\* repository reports as uncommitted has an uncommitted entry.
C23_OnePerPathFirstWins ==
  (call.fn = "GetStatus" /\ call.done /\ ~call.failed)
  => /\ NoTwoWithSamePath(call.files)
     /\ {call.files[k].Path : k \in DOMAIN call.files} = ReportedPaths
     /\ \A k \in DOMAIN call.files :
          call.files[k] = FirstReported(call.files[k].Path)
     /\ \A i \in DOMAIN call.reported :
          (call.reported[i].Status = "uncommitted"
             /\ call.reported[i].GitRoot = "root")
          => \E k \in DOMAIN call.files :
               /\ call.files[k].Path = call.reported[i].Path
               /\ call.files[k].Status = "uncommitted"

C23_Witness ==
  /\ call.fn = "GetStatus" /\ call.done /\ ~call.failed
  /\ Len(call.files) > 1
  /\ Len(call.reported) > Len(call.files) + 1
  /\ \E i, j \in DOMAIN call.reported :
        /\ call.reported[i].Path = call.reported[j].Path
        /\ call.reported[i].GitRoot = "root"
        /\ call.reported[i].Status = "committed"
        /\ call.reported[j].Status = "uncommitted"
        /\ call.reported[j].GitRoot = "sub"
        /\ FirstReported(call.reported[i].Path).Status = "committed"

----------------------------------------------------------------------------
(* C24 .. C26: the preview cache *)

\* C24: every entry previewCache[p] holds a preview built from the file
\* with path p.
C24_CacheEntryIsOfItsPath ==
  \A p \in DOMAIN previewCache : previewCache[p].src = p

\* C25: when the previewRequestMsg handler installs a preview from the
\* cache, the index it looked up is the selected index and the preview is
\* the cache entry of the selected path.
C25_CachedServeIsSelected ==
  ev.kind = "request-cached" =>
    /\ ev.idx = selected
    /\ preview = previewCache[files[selected + 1].Path]

\* C26: a preview served from the cache for a committed file is the preview
\* a fresh load of that entry would produce at that moment.
C26_CachedIsFresh ==
  ev.kind = "request-cached" => preview = BuildPreview(files[ev.idx + 1])

----------------------------------------------------------------------------
(* C27 .. C29: what a refresh does *)

\* C27: a list load whose GetStatus failed leaves the file list, the
\* selected index and the preview as they were.
C27_FailedRefreshKeepsState ==
  [][(FilesStep /\ scenario'.phase = "failed")
     => files' = files /\ selected' = selected /\ preview' = preview]_vars

\* C28: after a filesLoadedMsg handled with a non-empty list and a known
\* window size, the preview is the one built from the entry now selected
\* and lastSelectedFile is the selected index.
C28_RefreshRebuildsPreview ==
  (ev.kind = "files" /\ Len(files) > 0 /\ previewReady)
  => /\ preview = BuildPreview(files[selected + 1])
     /\ lastSelectedFile = selected

C28_Witness ==
  /\ ev.kind = "files" /\ Len(files) > 0 /\ previewReady
  /\ ev.same /\ ev.sel0 = selected /\ selected > 0
  /\ files[selected + 1].Commit = "c2"
  /\ preview.RawLines = DiskLineCount(files[selected + 1])

(* C29 *)

\* C29: a refresh after which the selected entry has the path it had before
\* leaves the scroll offset of the preview where it was, unless the offset
\* lies beyond the new content, and then it is clamped to the bottom; a
\* refresh after which the selected entry has another path puts the offset
\* at the top.
C29_RefreshKeepsScrollOfSamePath ==
  [][(FilesStep /\ Len(files') > 0)
       => IF files'[selected' + 1].Path = SelectedPath(files, selected)
            THEN viewport'.YOffset =
                   IF viewport.YOffset > viewport'.lines - 1
                     THEN MaxYOffset(viewport')
                     ELSE viewport.YOffset
            ELSE viewport'.YOffset = 0]_vars

C29_Witness ==
  /\ ev.kind = "files" /\ ev.same /\ Len(files) > 0 /\ previewReady
  /\ files[selected + 1].Path = preview.src
  /\ viewport.YOffset > 0

(* C30 *)

\* the rows the down key counts as the capacity of the window
VisibleCapacity(lh) == Max(lh - 3, 1)

\* C30: after an "up" key that moves the selection, one row of the window
\* lies above the selection or the window starts at the first entry; after
\* a "down" key that moves the selection, two rows of the capacity of the
\* window lie below it; when the capacity is at most 2 rows, both keys
\* scroll the window only as far as the selection needs (no buffer) and the
\* drawn slice holds the selection.
C30_KeysKeepBuffers ==
  [][LET cap == VisibleCapacity(listHeight)
     IN /\ ev'.kind = "up"
             => listScroll' = 0 \/ selected' >= listScroll' + 1
        /\ (ev'.kind = "down" /\ cap > 2)
             => listScroll' + cap - 1 - selected' >= 2
        /\ (ev'.kind \in {"up", "down"} /\ cap <= 2)
             => /\ ev'.kind = "up"
                     => listScroll' = Min(listScroll, selected')
                /\ ev'.kind = "down"
                     => listScroll' = Max(listScroll, selected' - cap + 1)
                /\ VisibleStart(listScroll') <= selected'
                /\ selected' < VisibleEnd(listScroll', listHeight, Len(files))]_vars

----------------------------------------------------------------------------
(* C31: the position of the preview after a load *)

\* C31: with d the index of the first changed visual line, after a load is
\* applied the scroll offset of the preview is 0 when the loaded preview has
\* no diff line (a committed file, or no change) or when d - 3 <= 2, and
\* otherwise d - 3, limited to the last valid offset.
C31_LoadScrollsToFirstDiff ==
  ev.kind = "loaded"
  => viewport.YOffset =
       IF preview.DiffLines = {} THEN 0
       ELSE IF FirstDiffIndex(preview) - ContextLines <= NearTop THEN 0
       ELSE Min(FirstDiffIndex(preview) - ContextLines, MaxYOffset(viewport))

(* C32 *)

\* C32: whenever a preview with lines is installed, the content the
\* viewport holds is that preview rendered at the current width.
C32_ContentIsAtCurrentWidth ==
  (preview.Valid /\ preview.Message = "" /\ preview.RawLines > 0)
  => call = RenderPreviewContent(preview, width, viewport.Height)

(* C33 *)

\* C33: a step that replaces the preview or changes the height of the
\* viewport leaves the scroll offset in [0, max(0, lines - height)]; a
\* resize that leaves the loaded file in place moves the offset to the top
\* only if no larger offset is valid.
C33_OffsetStaysValid ==
  [][/\ (preview' # preview \/ viewport'.Height # viewport.Height)
        => /\ viewport'.YOffset >= 0
           /\ viewport'.YOffset <= MaxYOffset(viewport')
     /\ (/\ ev'.kind \in {"resize", "plus", "minus"}
         /\ preview.Valid /\ preview'.Valid /\ preview'.src = preview.src
         /\ viewport'.YOffset = 0)
        => (viewport.YOffset = 0 \/ MaxYOffset(viewport') = 0)]_vars

(* C34 *)

\* C34: the file list section has exactly listHeight rows: the header, the
\* indicator rows and the entry rows never exceed listHeight and are padded
\* up to it.
C34_ListHasListHeightRows ==
  ListRows(listScroll, listHeight, Len(files)) = listHeight

----------------------------------------------------------------------------
(* C35, C36: message previews *)

MessageOnly(pv) == pv.Message # "" => pv.RawLines = 0 /\ pv.DiffLines = {}

\* the previews the program builds from the entries of a list
BuiltFrom(fs) == {BuildPreview(fs[i]) : i \in DOMAIN fs}

C36_LoadClassifiesInOrder ==
  /\ []((ev.kind = "loaded" /\ call.fn = "loadPreviewAsync")
        => /\ preview.Valid
           /\ preview.Message =
                IF IsDeleted(call.file) THEN "was deleted"
                ELSE IF isUnsupportedFile(call.file.Path) THEN "no file extension"
                ELSE IF ReadFails(call.file) THEN "couldn't read"
                ELSE ""
           /\ MessageOnly(preview)
           /\ selected > 0 => ENABLED KeyUp(BagCardinality(timers) + 1)
           /\ selected < Len(files) - 1
                => ENABLED KeyDown(BagCardinality(timers) + 1))
  /\ [][ev'.kind = "loaded" => files' = files /\ selected' = selected]_vars

C36_Witness ==
  /\ ev.kind = "loaded" /\ call.fn = "loadPreviewAsync"
  /\ IsDeleted(call.file) /\ isUnsupportedFile(call.file.Path)
  /\ preview.Message = "was deleted"
  /\ Len(files) > 1

(* C37 *)

\* C37: a preview scroll input (j, k, g, G, ctrl+d, ctrl+u, mouse wheel)
\* changes neither the file list, the selected index, the list scroll
\* offset, the installed preview, the preview cache nor the pending
\* debounce index, and starts no timer, load or refresh.
C37_ScrollInputsOnlyScroll ==
  [][ev'.kind \in {"scroll", "wheel"}
     => UNCHANGED <<files, selected, listScroll, preview, previewCache,
                    previewPending, timers, loads, fileLoads>>]_vars

C37_Witness ==
  /\ ev.kind \in {"scroll", "wheel"}
  /\ viewport.YOffset > 0
  /\ Len(files) > 1 /\ selected # lastSelectedFile
  /\ timers # EmptyBag

----------------------------------------------------------------------------
(* C38: the added lines of a diff of several hunks *)

\* the new-file line numbers of the lines the diff inserts
InsertedLines(src) ==
  UNION {IF CountPlus(src.hunks[i].body) = 0 THEN {}
         ELSE src.hunks[i].ns .. HunkEnd(src.hunks[i]) : i \in DOMAIN src.hunks}

\* git joins changes that touch: between two hunks lies an unchanged line
Separated(src) ==
  \A i \in DOMAIN src.hunks :
     i > 1 => src.hunks[i].ns > HunkEnd(src.hunks[i - 1])
                + (IF CountPlus(src.hunks[i].body) = 0 THEN 0 ELSE 1)

\* C38: for a well-formed zero-context diff of any number of hunks, the
\* keys GetDiffLines maps to added are exactly the new-file line numbers of
\* the inserted lines, also when an inserted line begins with "++" or a
\* removed line begins with "--".
C38_AddedAreInsertedLines ==
  (/\ call.fn = "GetDiffLines" /\ call.done
   /\ Separated(call.src)
   /\ \E n \in 1..MaxNewLines : WellFormed(call.src, n))
  => {k \in DOMAIN call.result : call.result[k] = "added"}
       = InsertedLines(call.src)

\* ---------------------------------------------------------------------------
\* The file watcher (package watcher): one goroutine started by Start, stopped
\* by Close.  The watcher is an object of its own; its state is held in `call`.
\*   pc      position of the goroutine: "select", "notify" (the debounce case
\*           was taken, the send on Changes is next), "exited", "panic"
\*   timer   -1: debounceTimer is nil; n > 0: n ms to go; 0: fired, unreceived
\*   events  events waiting on fsw.Events, oldest first
\*   changes number of notifications buffered on Changes (capacity 1)
\*   closed  how far Close has run: 0 not called, 1 after close(w.done),
\*           2 after close(w.Changes), 3 after w.fsw.Close()
\* History: quiet = ms since the last non-ignored event arrived; burst = number
\* of non-ignored events of the current burst; tried/sent = sends attempted and
\* sends queued since the burst began; unread = what the last attempt found
\* buffered on Changes; arrived = number of events delivered since the clock
\* last advanced (at most MaxEvents per clock step).
\* Time passes only while the goroutine is blocked in its select.
\* ---------------------------------------------------------------------------
DebounceMs == 100

ClockStep == DebounceMs \div 2

ChangesCap == 1

MaxEvents == 2

MaxBurstEvents == 3

ignoreDirs == {".git", "node_modules", ".next", "vendor", "__pycache__", ".cache"}

TempSuffixes == {".swp", ".swo", "~"}

\* An event name below the watched directory: the directories between the
\* watched directory and the file, the base name, and the base name's suffix.
WatchPaths ==
  { [dirs |-> <<>>, base |-> "a.go", suffix |-> ".go"],
    [dirs |-> <<>>, base |-> ".git", suffix |-> ""],
    [dirs |-> <<"web", "node_modules">>, base |-> "x.js", suffix |-> ".js"],
    [dirs |-> <<>>, base |-> "a.go.swp", suffix |-> ".swp"] }

shouldIgnore(path) ==
  \/ path.base \in ignoreDirs
  \/ \E i \in DOMAIN path.dirs : path.dirs[i] \in ignoreDirs
  \/ path.suffix \in TempSuffixes

NewWatcher ==
  [fn |-> "Watcher", pc |-> "select", timer |-> -1, events |-> <<>>,
   changes |-> 0, closed |-> 0,
   quiet |-> DebounceMs, burst |-> 0, tried |-> 0, sent |-> 0, unread |-> 0,
   arrived |-> 0]

WatcherInit ==
  /\ InitModel
  /\ scenario = Scenario("watcher", <<>>, <<>>, {})
  /\ call = NewWatcher

\* fsnotify delivers an event.  An event that follows the previous non-ignored
\* one by less than the debounce interval belongs to the same burst; a later
\* one begins a new burst, once the goroutine has dealt with the last.
FsEvent(path) ==
  /\ call.fn = "Watcher"
  /\ call.closed < 3
  /\ call.arrived < MaxEvents
  /\ IF shouldIgnore(path)
       THEN call' = [call EXCEPT !.events = Append(@, path),
                               !.arrived = @ + 1]
       ELSE IF call.quiet < DebounceMs
         THEN /\ call.burst < MaxBurstEvents
              /\ call' = [call EXCEPT !.events = Append(@, path),
                                      !.arrived = @ + 1,
                                      !.quiet = 0, !.burst = @ + 1]
         ELSE /\ call.pc = "select"
              /\ call.timer = -1
              /\ call' = [call EXCEPT !.events = Append(@, path),
                                      !.arrived = @ + 1,
                                      !.quiet = 0, !.burst = 1,
                                      !.tried = 0, !.sent = 0, !.unread = 0]
  /\ UNCHANGED <<mvars, timers, loads, fileLoads, ticks, ev, scenario>>

\* case <-w.done: return (the deferred function stops the timer)
RecvDone ==
  /\ call.fn = "Watcher"
  /\ call.pc = "select"
  /\ call.closed >= 1
  /\ call' = [call EXCEPT !.pc = "exited", !.timer = -1]
  /\ UNCHANGED <<mvars, timers, loads, fileLoads, ticks, ev, scenario>>

RecvEventRestartingOnIgnored ==
  /\ call.fn = "Watcher"
  /\ call.pc = "select"
  /\ call.events # <<>>
  /\ call' = [call EXCEPT !.events = Tail(@), !.timer = DebounceMs]
  /\ UNCHANGED <<mvars, timers, loads, fileLoads, ticks, ev, scenario>>

\* case event, ok := <-w.fsw.Events: an ignored event is skipped, any other
\* stops the pending timer and arms a new one
RecvEvent ==
  /\ call.fn = "Watcher"
  /\ call.pc = "select"
  /\ call.events # <<>>
  /\ call' = [call EXCEPT !.events = Tail(@),
                          !.timer = IF shouldIgnore(Head(call.events))
                                      THEN @ ELSE DebounceMs]
  /\ UNCHANGED <<mvars, timers, loads, fileLoads, ticks, ev, scenario>>

\* fsw.Close closed Events and Errors: !ok, return
RecvClosed ==
  /\ call.fn = "Watcher"
  /\ call.pc = "select"
  /\ call.closed = 3
  /\ call.events = <<>>
  /\ call' = [call EXCEPT !.pc = "exited", !.timer = -1]
  /\ UNCHANGED <<mvars, timers, loads, fileLoads, ticks, ev, scenario>>

\* case <-debounce: the fired timer is received
RecvDebounce ==
  /\ call.fn = "Watcher"
  /\ call.pc = "select"
  /\ call.timer = 0
  /\ call' = [call EXCEPT !.pc = "notify"]
  /\ UNCHANGED <<mvars, timers, loads, fileLoads, ticks, ev, scenario>>

\* select { case w.Changes <- struct{}{}: default: }; debounceTimer = nil
\* A send on a closed channel panics, also inside a select with a default.
Notify ==
  /\ call.fn = "Watcher"
  /\ call.pc = "notify"
  /\ call' = IF call.closed >= 2
               THEN [call EXCEPT !.pc = "panic"]
               ELSE [call EXCEPT !.pc = "select", !.timer = -1,
                                 !.unread = call.changes,
                                 !.tried = @ + 1,
                                 !.sent = IF call.changes < ChangesCap
                                            THEN @ + 1 ELSE @,
                                 !.changes = Min(@ + 1, ChangesCap)]
  /\ UNCHANGED <<mvars, timers, loads, fileLoads, ticks, ev, scenario>>

\* ClockStep ms pass while the goroutine is blocked in its select
Advance ==
  /\ call.fn = "Watcher"
  /\ call.pc = "select"
  /\ call.events = <<>>
  /\ call.closed = 0
  /\ call.timer # 0
  /\ call.timer > 0 \/ call.quiet < DebounceMs \/ call.arrived > 0
  /\ call' = [call EXCEPT !.timer = IF @ > 0 THEN Max(@ - ClockStep, 0) ELSE @,
                          !.quiet = Min(@ + ClockStep, DebounceMs),
                          !.arrived = 0]
  /\ UNCHANGED <<mvars, timers, loads, fileLoads, ticks, ev, scenario>>

\* the reader of Changes takes the notification
Consume ==
  /\ call.fn = "Watcher"
  /\ call.closed < 2
  /\ call.changes > 0
  /\ call' = [call EXCEPT !.changes = @ - 1]
  /\ UNCHANGED <<mvars, timers, loads, fileLoads, ticks, ev, scenario>>

\* Close, one statement at a time: close(w.done); close(w.Changes);
\* return w.fsw.Close()
Close ==
  /\ call.fn = "Watcher"
  /\ call.closed < 3
  /\ call' = [call EXCEPT !.closed = @ + 1]
  /\ UNCHANGED <<mvars, timers, loads, fileLoads, ticks, ev, scenario>>

WatcherNext ==
  \/ \E path \in WatchPaths : FsEvent(path)
  \/ RecvDone
  \/ RecvEvent
  \/ RecvClosed
  \/ RecvDebounce
  \/ Notify
  \/ Advance
  \/ Consume
  \/ Close

\* The Go scheduler runs a goroutine that can take a step, a select with
\* several ready cases picks among them at random (no ready case is passed
\* over for ever), time passes while the goroutine is blocked, and a Close that
\* has begun runs to its end.
SpecWatcher ==
  /\ WatcherInit
  /\ [][WatcherNext]_vars
  /\ WF_vars(RecvDone)
  /\ WF_vars(RecvEvent)
  /\ WF_vars(RecvClosed)
  /\ WF_vars(RecvDebounce)
  /\ WF_vars(Notify)
  /\ WF_vars(Advance)
  /\ WF_vars(Close /\ call.closed >= 1)

\* A burst is over: Close was not called, the goroutine is back in its select
\* with no timer, and every non-ignored event of the burst was received.
BurstOver ==
  /\ call.fn = "Watcher"
  /\ call.closed = 0
  /\ call.burst > 0
  /\ call.pc = "select"
  /\ call.timer = -1
  /\ \A i \in DOMAIN call.events : shouldIgnore(call.events[i])

IgnoredKeepTimer ==
  /\ call.fn = "Watcher"
  /\ call'.fn = "Watcher"
  /\ \/ /\ Len(call'.events) > Len(call.events)
        /\ shouldIgnore(call'.events[Len(call'.events)])
     \/ /\ call.events # <<>>
        /\ call'.events = Tail(call.events)
        /\ shouldIgnore(Head(call.events))
  => call'.timer = call.timer

\* C39 (as stated): a burst of non-ignored events, each less than 100 ms after
\* the one before, puts exactly one notification on Changes, and only after
\* 100 ms without events; an ignored event neither starts nor restarts the
\* debounce timer.
C39_BurstEmitsExactlyOne ==
  /\ [](BurstOver => call.sent = 1)
  /\ [](call.fn = "Watcher" /\ call.pc = "notify" => call.quiet >= DebounceMs)
  /\ [][IgnoredKeepTimer]_vars

\* C39 (amended): for such a burst the goroutine attempts exactly one send on
\* Changes, only after 100 ms without events; the notification is queued when
\* Changes is empty and dropped when an earlier notification is still unread,
\* so that Changes holds one notification either way; every burst gets its
\* attempt unless Close is called; an ignored event neither starts nor
\* restarts the debounce timer.
C39_BurstTriesExactlyOne ==
  /\ [](BurstOver => /\ call.tried = 1
                     /\ call.sent = ChangesCap - call.unread
                     /\ call.unread \in {0, ChangesCap})
  /\ [](call.fn = "Watcher" => call.tried <= 1 /\ call.sent <= call.tried)
  /\ [](call.fn = "Watcher" /\ call.pc = "notify" => call.quiet >= DebounceMs)
  /\ [][IgnoredKeepTimer]_vars
  /\ [][call.fn = "Watcher" /\ call'.fn = "Watcher" /\ call'.tried > call.tried
          => call'.changes = ChangesCap]_vars
  /\ (call.fn = "Watcher" /\ call.burst > 0 /\ call.tried = 0)
        ~> (call.tried = 1 \/ call.closed > 0)

\* a burst of more than one event, one of them ignored in between, has had its
\* notification dropped because the previous one was unread
C39_Witness ==
  /\ BurstOver
  /\ call.burst > 1
  /\ call.tried = 1
  /\ call.sent = 0

\* C40: Close may be called at any moment while the goroutine runs: the
\* goroutine never sends on the closed Changes channel and terminates.
C40_CloseNeverPanics ==
  /\ [](call.fn = "Watcher" => call.pc # "panic")
  /\ (call.fn = "Watcher" /\ call.closed > 0) ~> (call.pc = "exited")

====
